---------------------------- MODULE Spec2Model ----------------------------
(***************************************************************************)
(* A model of xtce-rs: the bit-addressed reader (src/bitbuffer.rs), the    *)
(* container processor (src/proc/containers.rs), the criteria evaluator    *)
(* (src/proc/criteria_evaluator.rs) and the string extraction              *)
(* (src/proc/encodings.rs).                                                *)
(*                                                                         *)
(* A u64 is a sequence of 8 bytes, most significant first, because the     *)
(* values the reader returns do not fit the integers of the model checker. *)
(***************************************************************************)
EXTENDS Integers, Sequences, FiniteSets, TLC

VARIABLES
    b,            \* BitBuffer.b: the byte slice, a sequence of 0..255
    position,     \* BitBuffer.position, in bits
    byte_order,   \* BitBuffer.byte_order
    last,         \* the last call made on the BitBuffer and what it returned
    result,       \* ProcCtx.result: the ParameterValueList of the packet
    sde,          \* the StringDataEncoding given to extract_string
    sres,         \* what extract_string returned
    mdb,          \* the MissionDatabase given to process
    root,         \* the root_container given to process
    pc,           \* where the call of process is: "none", "idle", "run", "done"
    stack,        \* the calls of extract_container in progress: container, next entry, next child
    pdata,        \* ProcCtx.pdata: the compiled evaluators
    ret,          \* what process returned
    evlog,        \* the criteria evaluations made so far, in order
    hist,         \* the entries extracted so far, in order
    entered,      \* the containers extract_container was called on, in order
    failed,       \* the entry whose extraction ended the call, if any
    enc,          \* the IntegerDataEncoding given to extract_integer
    ires,         \* what extract_integer returned
    vin,          \* the arguments given to Value::int_value or Value::uint_value
    vout,         \* what Value::int_value or Value::uint_value returned
    calls,        \* the calls of add_parameter_type, add_parameter and add_container made
    name_tree,    \* the NameTree of the loader
    req,          \* the reference, space system and kind given to NameTree::resolve_ref
    resolved,     \* what NameTree::resolve_ref returned, and what it returned for the absolute form
    doc,          \* the entities of the document being loaded
    lpc,          \* where the loader is: "none", "first", "while", "retry", "built", "done"
    tovisit,      \* the entities the first pass of build_mdb has not visited yet
    unresolved,   \* build_mdb: the queue of deferred entities
    unresolved1,  \* build_mdb: the queue the retry pass in progress fills
    li,           \* build_mdb: the place of the retry pass in the queue
    lret,         \* what build_mdb returned
    raised,       \* the errors the constructors raised, with the pass they were raised in
    pret,         \* what parse returned
    fcall,        \* the function called on its own, with its arguments
    fret          \* what that function returned

bbvars == <<b, position, byte_order, last>>
strvars == <<sde, sres>>
procvars == <<mdb, root, pc, stack, pdata, ret, evlog, hist, entered, failed>>
intvars == <<enc, ires, vin, vout>>
mdbvars == <<calls>>
treevars == <<name_tree, req, resolved>>
loadvars == <<doc, lpc, tovisit, unresolved, unresolved1, li, lret, raised, pret>>
latevars == <<fcall, fret>>
othervars == <<intvars, mdbvars, treevars, loadvars, latevars>>

-----------------------------------------------------------------------------
(* Bounds and program constants *)

\* the longest buffer of the bit reader's specification, in bytes
MaxBufLen == 9

\* bitbuffer.rs:93  "if num_bits > 64 { panic!"
MaxNumBits == 64

\* the longest buffer given to extract_string, in bytes
MaxStrBuf == 4

\* pvlist.rs:29  u32::MAX, the "no previous entry" mark; the integers of the model checker
\* end at 2^31-1 and no index of the model comes near either number
U32Max == 2147483647

BigEndian == "BigEndian"
LittleEndian == "LittleEndian"
ByteOrder == {BigEndian, LittleEndian}

-----------------------------------------------------------------------------
(* u64 arithmetic on 8 bytes, most significant first *)

Zero64 == <<0, 0, 0, 0, 0, 0, 0, 0>>

\* `x as u64` of a u8
U64FromU8(x) == <<0, 0, 0, 0, 0, 0, 0, x>>

\* r << n on a u64, 0 <= n <= 8: the bits shifted out at the top are lost
Shl64(r, n) ==
    [i \in 1..8 |-> ((r[i] * (2 ^ n)) % 256)
                    + (IF i < 8 THEN r[i + 1] \div (2 ^ (8 - n)) ELSE 0)]

RECURSIVE OrBits(_, _, _)
\* the bitwise or of two bytes, from bit k upwards
OrBits(x, y, k) ==
    IF k > 7 THEN 0
    ELSE (IF ((x \div (2 ^ k)) % 2 = 1) \/ ((y \div (2 ^ k)) % 2 = 1) THEN 2 ^ k ELSE 0)
         + OrBits(x, y, k + 1)

\* r | x on u64
Or64(r, x) ==
    [i \in 1..8 |-> IF x[i] = 0 THEN r[i] ELSE IF r[i] = 0 THEN x[i] ELSE OrBits(r[i], x[i], 0)]

-----------------------------------------------------------------------------
(* BitBuffer *)

\* self.b[i] is in bounds (a Rust slice index out of bounds panics)
InBuf(buf, i) == i >= 0 /\ i < Len(buf)

Panic(pos) == [status |-> "panic", value |-> Zero64, position |-> pos]
Got(v, pos) == [status |-> "ok", value |-> v, position |-> pos]

RECURSIVE BELoop(_, _, _, _)
\* while n > 8 { r = (r << 8) | b[byte_pos]; n -= 8; byte_pos += 1 }
BELoop(buf, r, n, byte_pos) ==
    IF n > 8
    THEN IF ~InBuf(buf, byte_pos)
         THEN [ok |-> FALSE, r |-> r, n |-> n, byte_pos |-> byte_pos]
         ELSE BELoop(buf, Or64(Shl64(r, 8), U64FromU8(buf[byte_pos + 1])), n - 8, byte_pos + 1)
    ELSE [ok |-> TRUE, r |-> r, n |-> n, byte_pos |-> byte_pos]

\* the loop of get_bits_le walking the bytes upwards, as the big-endian loop does
LELoopUpwards(buf, r, n, byte_pos) == BELoop(buf, r, n, byte_pos)

RECURSIVE LELoop(_, _, _, _)
\* while n > 8 { r = (r << 8) | b[byte_pos]; n -= 8; byte_pos -= 1 }
LELoop(buf, r, n, byte_pos) ==
    IF n > 8
    THEN IF ~InBuf(buf, byte_pos)
         THEN [ok |-> FALSE, r |-> r, n |-> n, byte_pos |-> byte_pos]
         ELSE LELoop(buf, Or64(Shl64(r, 8), U64FromU8(buf[byte_pos + 1])), n - 8, byte_pos - 1)
    ELSE [ok |-> TRUE, r |-> r, n |-> n, byte_pos |-> byte_pos]

\* the tail taking the low n bits of the last byte instead of its high n bits
LastByteLowBits(buf, pos, num_bits, lp) ==
    IF ~lp.ok \/ ~InBuf(buf, lp.byte_pos)
    THEN Panic(pos)
    ELSE Got(Or64(Shl64(lp.r, lp.n), U64FromU8(buf[lp.byte_pos + 1] % (2 ^ lp.n))),
             pos + num_bits)

\* the tail both byte orders share: r = (r << n) | (b[byte_pos] >> (8 - n))
LastByte(buf, pos, num_bits, lp) ==
    IF ~lp.ok \/ ~InBuf(buf, lp.byte_pos)
    THEN Panic(pos)
    ELSE Got(Or64(Shl64(lp.r, lp.n), U64FromU8(buf[lp.byte_pos + 1] \div (2 ^ (8 - lp.n)))),
             pos + num_bits)

\* get_bits_le leaving the cursor where it was when the value fits within one byte
get_bits_le_no_advance(buf, pos, num_bits) ==
    LET byte_pos == (pos + num_bits - 1) \div 8
        lbb == (pos + num_bits) % 8
    IN  IF lbb > 0 /\ lbb >= num_bits
        THEN IF ~InBuf(buf, byte_pos)
             THEN Panic(pos)
             ELSE Got(U64FromU8((buf[byte_pos + 1] \div (2 ^ (lbb - num_bits))) % (2 ^ num_bits)),
                      pos)
        ELSE IF lbb > 0
        THEN IF ~InBuf(buf, byte_pos)
             THEN Panic(pos)
             ELSE LastByte(buf, pos, num_bits,
                           LELoop(buf, U64FromU8(buf[byte_pos + 1] % (2 ^ lbb)),
                                  num_bits - lbb, byte_pos - 1))
        ELSE LastByte(buf, pos, num_bits, LELoop(buf, Zero64, num_bits, byte_pos))

get_bits_le(buf, pos, num_bits) ==
    LET byte_pos == (pos + num_bits - 1) \div 8
        lbb == (pos + num_bits) % 8
    IN  IF lbb > 0 /\ lbb >= num_bits
        THEN \* the value fits entirely within one byte; position is set before the read
             IF ~InBuf(buf, byte_pos)
             THEN Panic(pos + num_bits)
             ELSE Got(U64FromU8((buf[byte_pos + 1] \div (2 ^ (lbb - num_bits))) % (2 ^ num_bits)),
                      pos + num_bits)
        ELSE IF lbb > 0
        THEN IF ~InBuf(buf, byte_pos)
             THEN Panic(pos)
             ELSE LastByte(buf, pos, num_bits,
                           LELoop(buf, U64FromU8(buf[byte_pos + 1] % (2 ^ lbb)),
                                  num_bits - lbb, byte_pos - 1))
        ELSE LastByte(buf, pos, num_bits, LELoop(buf, Zero64, num_bits, byte_pos))

get_bits(buf, pos, order, num_bits) ==
    IF num_bits > MaxNumBits
    THEN Panic(pos)
    ELSE IF order = LittleEndian
    THEN get_bits_le(buf, pos, num_bits)
    ELSE LET byte_pos == pos \div 8
             fbb == (8 - (pos % 8)) % 8
         IN  IF fbb > 0 /\ num_bits <= fbb
             THEN \* the value fits entirely within the first byte
                  IF ~InBuf(buf, byte_pos)
                  THEN Panic(pos + num_bits)
                  ELSE Got(U64FromU8((buf[byte_pos + 1] \div (2 ^ (fbb - num_bits))) % (2 ^ num_bits)),
                           pos + num_bits)
             ELSE IF fbb > 0
             THEN IF ~InBuf(buf, byte_pos)
                  THEN Panic(pos)
                  ELSE LastByte(buf, pos, num_bits,
                                BELoop(buf, U64FromU8(buf[byte_pos + 1] % (2 ^ fbb)),
                                       num_bits - fbb, byte_pos + 1))
             ELSE LastByte(buf, pos, num_bits, BELoop(buf, Zero64, num_bits, byte_pos))

bitsize(buf) == Len(buf) * 8

-----------------------------------------------------------------------------
(* Values (value.rs) and the ParameterValueList (pvlist.rs) *)

Uint64(v) == [t |-> "Uint64", v |-> v]
Int64(v) == [t |-> "Int64", v |-> v]
StringValue(v) == [t |-> "StringValue", v |-> v]
Boolean(v) == [t |-> "Boolean", bool |-> v]
Enumerated(key, value) == [t |-> "Enumerated", key |-> key, value |-> value]
Binary(v) == [t |-> "Binary", v |-> v]

\* an f64 that has no fraction: whether it is NaN, its sign, and its magnitude, which is
\* mag when over is 0, 2^64 when over is 1 and infinite when over is 2
Double(nan, neg, over, mag) ==
    [t |-> "Double", d |-> [nan |-> nan, neg |-> neg, over |-> over, mag |-> mag]]

\* a u64 below 2^31 as a number
U64ToNat(v) == ((v[5] * 256 + v[6]) * 256 + v[7]) * 256 + v[8]

\* a number below 2^31 as a u64
NatToU64(x) ==
    <<0, 0, 0, 0, (x \div 16777216) % 256, (x \div 65536) % 256, (x \div 256) % 256, x % 256>>

NewPvList == [entries |-> <<>>, last_idx |-> <<>>]

\* push that leaves the index of the last value of a parameter where the first push put it
push_keeps_first(pvl, pv) ==
    LET idx == Len(pvl.entries)
        prev == IF pv.pidx \in DOMAIN pvl.last_idx THEN pvl.last_idx[pv.pidx] ELSE U32Max
    IN  [entries |-> Append(pvl.entries, [prev |-> prev, pv |-> pv]),
         last_idx |-> [p \in (DOMAIN pvl.last_idx) \cup {pv.pidx} |->
                            IF p \in DOMAIN pvl.last_idx THEN pvl.last_idx[p] ELSE idx]]

\* the HashMap last_idx is a function from the pidx it holds to the index of its last entry
push(pvl, pv) ==
    LET idx == Len(pvl.entries)
        prev == IF pv.pidx \in DOMAIN pvl.last_idx THEN pvl.last_idx[pv.pidx] ELSE U32Max
    IN  [entries |-> Append(pvl.entries, [prev |-> prev, pv |-> pv]),
         last_idx |-> [p \in (DOMAIN pvl.last_idx) \cup {pv.pidx} |->
                            IF p = pv.pidx THEN idx ELSE pvl.last_idx[p]]]

None == [some |-> FALSE]
Some(x) == [some |-> TRUE, v |-> x]

\* the first value pushed for the parameter instead of the last
first_inserted(pvl, pidx) ==
    LET js == {j \in DOMAIN pvl.entries : pvl.entries[j].pv.pidx = pidx}
    IN  IF js = {} THEN None
        ELSE Some(pvl.entries[CHOOSE j \in js : \A k \in js : j <= k].pv)

last_inserted(pvl, pidx) ==
    IF pidx \in DOMAIN pvl.last_idx /\ pvl.last_idx[pidx] < U32Max
    THEN Some(pvl.entries[pvl.last_idx[pidx] + 1].pv)
    ELSE None

\* ProcCtx::get_param_value for a reference without member path, instance 0, calibrated
get_param_value(pvl, pidx) ==
    LET pv == last_inserted(pvl, pidx)
    IN  IF pv.some THEN Some(pv.v.eng_value) ELSE None

\* ProcCtx::get_dynamic_uint_value without linear adjustment
get_dynamic_uint_value(pvl, pidx) ==
    LET v == get_param_value(pvl, pidx)
    IN  IF ~v.some THEN [ok |-> FALSE, err |-> "MissingValue", x |-> Zero64]
        ELSE IF v.v.t # "Uint64" THEN [ok |-> FALSE, err |-> "DecodingError", x |-> Zero64]
        ELSE [ok |-> TRUE, err |-> "", x |-> v.v.v]

-----------------------------------------------------------------------------
(* String extraction (proc/encodings.rs) *)

\* BitBuffer::remaining_bytes: the whole bytes from the cursor to the end of the buffer
remaining_bytes(buf, pos) == (bitsize(buf) - pos) \div 8

\* BitBuffer::get_byte: as get_bits(8)
get_byte(buf, pos, order) == get_bits(buf, pos, order, 8)

\* BitBuffer::get_bytes_ref(len): len bytes at the byte-aligned cursor, which moves by 8*len
get_bytes_ref(buf, pos, len) ==
    IF pos % 8 # 0 \/ (pos \div 8) + len > Len(buf)
    THEN [status |-> "panic", bytes |-> <<>>, position |-> pos]
    ELSE [status |-> "ok", bytes |-> SubSeq(buf, (pos \div 8) + 1, (pos \div 8) + len),
          position |-> pos + 8 * len]

\* String::from_utf8_lossy on ASCII bytes and on bytes no UTF-8 text holds (F8..FF)
from_utf8_lossy(bytes) == [i \in 1..Len(bytes) |-> IF bytes[i] < 128 THEN bytes[i] ELSE 65533]

NoBox == [some |-> FALSE, v |-> 0]
Box(n) == [some |-> TRUE, v |-> n]

StrErr(kind, pos) ==
    [status |-> "err", err |-> kind, bytes |-> <<>>, value |-> <<>>, position |-> pos,
     bit_offset |-> 0, bit_size |-> 0, scanned |-> 0, box_given |-> FALSE]
StrPanic(pos) == [StrErr("", pos) EXCEPT !.status = "panic"]

\* the first step: the box size; bmr is the largest box the buffer and max_box_size allow
BoxSize(s, pvl, bmr) ==
    IF s.box.kind = "Undefined" THEN [ok |-> TRUE, err |-> "", box |-> NoBox, bmr |-> bmr]
    ELSE IF s.box.kind = "Fixed"
    THEN LET bsize == s.box.x \div 8
         IN  IF bsize > bmr THEN [ok |-> FALSE, err |-> "DecodingError", box |-> NoBox, bmr |-> bmr]
             ELSE [ok |-> TRUE, err |-> "", box |-> Box(bsize), bmr |-> bsize]
    ELSE LET d == get_dynamic_uint_value(pvl, s.box.x)
             bsize == U64ToNat(d.x) \div 8
         IN  IF ~d.ok THEN [ok |-> FALSE, err |-> d.err, box |-> NoBox, bmr |-> bmr]
             ELSE IF bsize > bmr
             THEN [ok |-> FALSE, err |-> "DecodingError", box |-> NoBox, bmr |-> bmr]
             ELSE [ok |-> TRUE, err |-> "", box |-> Box(bsize), bmr |-> bsize]

RECURSIVE ScanTerminatorOneMore(_, _, _, _, _, _)
\* the scan with "strsize <= bmr" for "strsize < bmr"
ScanTerminatorOneMore(buf, pos, order, bmr, tc, strsize) ==
    IF strsize <= bmr
    THEN LET g == get_byte(buf, pos, order)
         IN  IF g.status # "ok" THEN [ok |-> FALSE, strsize |-> strsize, calls |-> strsize + 1]
             ELSE IF g.value # U64FromU8(tc)
             THEN ScanTerminatorOneMore(buf, g.position, order, bmr, tc, strsize + 1)
             ELSE [ok |-> TRUE, strsize |-> strsize, calls |-> strsize + 1]
    ELSE [ok |-> TRUE, strsize |-> strsize, calls |-> strsize]

RECURSIVE ScanTerminator(_, _, _, _, _, _)
\* while strsize < bmr && ctx.cbuf.get_byte() != termination_char { strsize += 1 }
\* calls counts the bytes read; the byte that ends the loop is read too
ScanTerminator(buf, pos, order, bmr, tc, strsize) ==
    IF strsize < bmr
    THEN LET g == get_byte(buf, pos, order)
         IN  IF g.status # "ok" THEN [ok |-> FALSE, strsize |-> strsize, calls |-> strsize + 1]
             ELSE IF g.value # U64FromU8(tc)
             THEN ScanTerminator(buf, g.position, order, bmr, tc, strsize + 1)
             ELSE [ok |-> TRUE, strsize |-> strsize, calls |-> strsize + 1]
    ELSE [ok |-> TRUE, strsize |-> strsize, calls |-> strsize]

\* a failure of the second step, and a panic in it
SizeErr(kind, bx, start) ==
    [status |-> "err", err |-> kind, box |-> bx.box, strsize |-> 0, pos |-> start,
     scanned |-> 0]
SizePanic(bx, start) == [SizeErr("", bx, start) EXCEPT !.status = "panic"]

\* StringSize::LeadingSize after the size tag g was read: size = get_bits(..) as u32, taken
\* in two 16-bit halves; tag_size + size is a sum of u32
LeadingSizeRead(tag_size, bx, start, chk, g) ==
    LET lo == g.value[7] * 256 + g.value[8] + tag_size
        hi == g.value[5] * 256 + g.value[6] + (lo \div 65536)
        overflow == hi > 65535
        sumhi == hi % 65536
        sumlo == lo % 65536
    IN  IF g.status # "ok" THEN SizePanic(bx, start)
        ELSE IF overflow /\ chk THEN SizePanic(bx, start)
        ELSE IF sumhi > 0 \/ sumlo > bx.bmr THEN SizeErr("DecodingError", bx, start)
        ELSE [status |-> "ok", err |-> "",
              box |-> IF bx.box.some THEN bx.box ELSE Box(sumlo),
              \* after a wrapped sum the size is 2^32-4 or more, past any buffer
              strsize |-> IF overflow THEN 65536 * 256 ELSE sumlo - tag_size,
              pos |-> g.position, scanned |-> 0]

\* StringSize::TerminationChar after the scan sc
TerminatorScanned(bx, start, sc) ==
    IF ~sc.ok THEN [SizePanic(bx, start) EXCEPT !.scanned = sc.calls]
    ELSE IF ~bx.box.some /\ sc.strsize = bx.bmr
    THEN [SizeErr("DecodingError", bx, start) EXCEPT !.scanned = sc.calls]
    ELSE [status |-> "ok", err |-> "",
          box |-> IF bx.box.some THEN bx.box ELSE Box(sc.strsize + 1),
          strsize |-> sc.strsize, pos |-> start, scanned |-> sc.calls]

\* the second step: the size of the string; pos is where its bytes start
StringSize(s, buf, start, order, bx, chk) ==
    IF s.size.kind = "Fixed"
    THEN IF s.size.x \div 8 > bx.bmr THEN SizeErr("DecodingError", bx, start)
         ELSE [status |-> "ok", err |-> "", box |-> bx.box, strsize |-> s.size.x \div 8,
               pos |-> start, scanned |-> 0]
    ELSE IF s.size.kind = "LeadingSize"
    THEN IF s.size.x > bx.bmr THEN SizeErr("DecodingError", bx, start)
         ELSE LeadingSizeRead(s.size.x, bx, start, chk,
                              get_bits(buf, start, order, s.size.x * 8))
    ELSE TerminatorScanned(bx, start, ScanTerminator(buf, start, order, bx.bmr, s.size.x, 0))

\* the third step: the bytes of the string are taken and the cursor is put after the box
StringTaken(pos, bx, sz, by) ==
    IF by.status # "ok" THEN StrPanic(sz.pos)
    ELSE [status |-> "ok", err |-> "", bytes |-> by.bytes, value |-> from_utf8_lossy(by.bytes),
          position |-> pos + 8 * sz.box.v,
          bit_offset |-> pos, bit_size |-> 8 * sz.box.v, scanned |-> sz.scanned,
          box_given |-> bx.box.some]

\* extract_string once the size sz of the string is known
StringSized(buf, pos, bx, sz) ==
    IF sz.status = "err" THEN [StrErr(sz.err, sz.pos) EXCEPT !.scanned = sz.scanned]
    ELSE IF sz.status = "panic" THEN [StrPanic(sz.pos) EXCEPT !.scanned = sz.scanned]
    ELSE IF ~sz.box.some THEN StrPanic(sz.pos)       \* assert!(box_size.is_some())
    ELSE StringTaken(pos, bx, sz, get_bytes_ref(buf, sz.pos, sz.strsize))

\* extract_string once the box bx is known
StringBoxed(s, buf, pos, order, chk, bx) ==
    IF ~bx.ok THEN StrErr(bx.err, pos)
    ELSE StringSized(buf, pos, bx, StringSize(s, buf, pos, order, bx, chk))

\* the largest box: what remains of the buffer, or max_box_size if that is less
MaxBox(s, remaining) ==
    IF s.max_box.some /\ s.max_box.v < remaining THEN s.max_box.v ELSE remaining

extract_string(s, buf, pos, order, pvl, chk) ==
    IF pos % 8 # 0 THEN StrErr("DecodingError", pos)
    ELSE StringBoxed(s, buf, pos, order, chk,
                     BoxSize(s, pvl, MaxBox(s, remaining_bytes(buf, pos))))

-----------------------------------------------------------------------------
(* Value sizing (value.rs) *)

\* x < y on u64
Lt64(x, y) == \E i \in 1..8 : x[i] < y[i] /\ \A j \in 1..(i - 1) : x[j] = y[j]

\* bit k (from 0, least significant) of 64 bits
Bit(v, k) == (v[8 - (k \div 8)] \div (2 ^ (k % 8))) % 2

\* (1 << num_bits) - 1 on u64, num_bits < 64
Ones64(num_bits) ==
    [i \in 1..8 |-> LET k == num_bits - 8 * (8 - i)
                    IN  IF k >= 8 THEN 255 ELSE IF k <= 0 THEN 0 ELSE (2 ^ k) - 1]

\* Value::uint_value
uint_value(num_bits, x) ==
    IF num_bits >= 64 THEN Uint64(x)
    ELSE IF Lt64(Ones64(num_bits), x) THEN Uint64(Ones64(num_bits)) ELSE Uint64(x)

\* an i64 is the 8 bytes of its two's complement, most significant first
Negative(x) == x[1] >= 128

\* x < y on i64
SLt(x, y) == IF Negative(x) # Negative(y) THEN Negative(x) ELSE Lt64(x, y)

\* x << n on 64 bits, 0 <= n <= 63
Shl(x, n) == Shl64([i \in 1..8 |-> IF i + (n \div 8) <= 8 THEN x[i + (n \div 8)] ELSE 0], n % 8)

\* x shifted right by n, 0 <= n <= 63, the vacated bits taking the bits of the byte fill
ShiftRight(x, n, fill) ==
    LET byte(i) == IF i - (n \div 8) >= 1 THEN x[i - (n \div 8)] ELSE fill
    IN  [i \in 1..8 |-> (byte(i) \div (2 ^ (n % 8)))
                         + ((byte(i - 1) % (2 ^ (n % 8))) * (2 ^ (8 - (n % 8))))]

\* x >> n on u64
Shr(x, n) == ShiftRight(x, n, 0)

\* x >> n on i64: an arithmetic shift
Sar(x, n) == ShiftRight(x, n, IF Negative(x) THEN 255 ELSE 0)

RECURSIVE AndBits(_, _, _)
\* the bitwise and of two bytes, from bit k upwards
AndBits(x, y, k) ==
    IF k > 7 THEN 0
    ELSE (IF ((x \div (2 ^ k)) % 2 = 1) /\ ((y \div (2 ^ k)) % 2 = 1) THEN 2 ^ k ELSE 0)
         + AndBits(x, y, k + 1)

\* x & y on 64 bits
And64(x, y) == [i \in 1..8 |-> AndBits(x[i], y[i], 0)]

\* !x on i64
Not64(x) == [i \in 1..8 |-> 255 - x[i]]

\* -x on i64, for x other than i64::MIN
Neg64(x) ==
    LET y == Not64(x)
    IN  [i \in 1..8 |-> IF \A j \in (i + 1)..8 : y[j] = 255 THEN (y[i] + 1) % 256 ELSE y[i]]

\* int_value without saturation: the low num_bits bits of x, sign-extended
int_value_wrapping(num_bits, x) == Int64(Sar(Shl(x, 64 - num_bits), 64 - num_bits))

\* Value::int_value for num_bits >= 1: if y >= max { y = max }  if y < min { y = min }
int_value(num_bits, x) ==
    IF num_bits >= 64 THEN Int64(x)
    ELSE LET max == Ones64(num_bits - 1)
             min == Not64(max)              \* -max - 1
             y == IF ~SLt(x, max) THEN max ELSE x
         IN  IF SLt(y, min) THEN Int64(min) ELSE Int64(y)

-----------------------------------------------------------------------------
(* The mission database (mdb/mod.rs) *)

NoIdx == 0     \* an Option<...Idx> that is None

NoBase == [some |-> FALSE, c |-> 0, mc |-> 0]
Base(c, mc) == [some |-> TRUE, c |-> c, mc |-> mc]

NoLoc == [some |-> FALSE, ref |-> "PreviousEntry", bits |-> 0]
Loc(ref, bits) == [some |-> TRUE, ref |-> ref, bits |-> bits]

\* a ContainerEntry with data ParameterRef(pidx)
ParameterRefEntry(loc, inc, pidx) ==
    [location_in_container |-> loc, include_condition |-> inc, pidx |-> pidx]

\* a HashMap with one more entry
MapInsert(f, k, v) == [x \in (DOMAIN f) \cup {k} |-> IF x = k THEN v ELSE f[x]]

\* the root space system has the empty qualified name
RootQn == <<>>

\* SpaceSystem::new
SpaceSystem(fqn) ==
    [fqn |-> fqn, parameters |-> <<>>, parameter_types |-> <<>>, containers |-> <<>>]

\* MissionDatabase::new: the root space system is there
NewMdb ==
    [parameters |-> <<>>, parameter_types |-> <<>>, match_criteria |-> <<>>,
     containers |-> <<>>, child_containers |-> <<>>,
     space_systems |-> (RootQn :> SpaceSystem(RootQn))]

\* MissionDatabase::new_space_system for a name that is not empty
new_space_system(m, fqn) ==
    IF fqn \in DOMAIN m.space_systems THEN m
    ELSE [m EXCEPT !.space_systems = MapInsert(@, fqn, SpaceSystem(fqn))]

\* MissionDatabase::add_parameter_type in a space system that exists: the type gets the next
\* index and the space system maps its name to that index
add_parameter_type(m, space_system, ptype) ==
    [m EXCEPT
       !.parameter_types = Append(@, ptype),
       !.space_systems[space_system].parameter_types =
           MapInsert(@, ptype.name, Len(m.parameter_types) + 1)]

\* MissionDatabase::add_parameter in a space system that exists
add_parameter(m, space_system, param) ==
    [m EXCEPT
       !.parameters = Append(@, param),
       !.space_systems[space_system].parameters =
           MapInsert(@, param.name, Len(m.parameters) + 1)]

\* add_container that lists no child
add_container_no_child(m, space_system, container) ==
    [m EXCEPT
       !.containers = Append(@, [container EXCEPT !.idx = Len(m.containers) + 1]),
       !.space_systems[space_system].containers =
           MapInsert(@, container.name, Len(m.containers) + 1)]

\* MissionDatabase::add_container in a space system that exists: the container gets the
\* next index, the space system maps its name to that index, and the container is listed
\* among the children of its base container
add_container(m, space_system, container) ==
    LET idx == Len(m.containers) + 1
        base_idx == container.base_container.c
    IN  [m EXCEPT
           !.containers = Append(@, [container EXCEPT !.idx = idx]),
           !.space_systems[space_system].containers = MapInsert(@, container.name, idx),
           !.child_containers =
               IF container.base_container.some
               THEN [c \in (DOMAIN @) \cup {base_idx} |->
                        IF c = base_idx
                        THEN Append(IF base_idx \in DOMAIN @ THEN @[base_idx] ELSE <<>>, idx)
                        ELSE @[c]]
               ELSE @]

\* get_parameter_type_idx, get_parameter_idx, get_container_idx
get_parameter_type_idx(m, space_system, name) ==
    IF space_system \in DOMAIN m.space_systems
       /\ name \in DOMAIN m.space_systems[space_system].parameter_types
    THEN Some(m.space_systems[space_system].parameter_types[name]) ELSE None
get_parameter_idx(m, space_system, name) ==
    IF space_system \in DOMAIN m.space_systems
       /\ name \in DOMAIN m.space_systems[space_system].parameters
    THEN Some(m.space_systems[space_system].parameters[name]) ELSE None
get_container_idx(m, space_system, name) ==
    IF space_system \in DOMAIN m.space_systems
       /\ name \in DOMAIN m.space_systems[space_system].containers
    THEN Some(m.space_systems[space_system].containers[name]) ELSE None

RECURSIVE AddContainers(_, _, _)
\* the containers of a list added one after the other
AddContainers(m, space_system, cs) ==
    IF cs = <<>> THEN m
    ELSE AddContainers(add_container(m, space_system, Head(cs)), space_system, Tail(cs))

\* the children of a container, each listed twice
ChildrenTwice(m, c) ==
    IF c \in DOMAIN m.child_containers
    THEN m.child_containers[c] \o m.child_containers[c] ELSE <<>>

\* for c in mdb.child_containers.get(&container.idx)
Children(m, c) == IF c \in DOMAIN m.child_containers THEN m.child_containers[c] ELSE <<>>

-----------------------------------------------------------------------------
(* The criteria evaluator (proc/criteria_evaluator.rs) *)

OK == "OK"
NOK == "NOK"
UNDEF == "UNDEF"
ERROR == "ERROR"
\* todo!() reached in an evaluation: the thread panics
PANIC == "PANIC"

\* Comparison with instance 0, use_calibrated_value and no member path; the literal is
\* the number its text parses to
Comparison(pidx, op, value) == [pidx |-> pidx, comparison_operator |-> op, value |-> value]

\* parse_integer for an unsigned integer type: the literal has to fit the type
parse_integer(value, size_in_bits) ==
    IF value < 0 \/ (size_in_bits < 31 /\ value > (2 ^ size_in_bits) - 1)
    THEN [status |-> "err", err |-> "OutOfRange", v |-> Uint64(Zero64)]
    ELSE [status |-> "ok", err |-> "", v |-> Uint64(NatToU64(value))]

\* criteria_evaluator::from_comparison
from_comparison(m, comp) ==
    LET param == m.parameters[comp.pidx]
        ptype == m.parameter_types[param.ptype]
        right == parse_integer(comp.value, ptype.type_data.size_in_bits)
    IN  IF param.ptype = NoIdx THEN [status |-> "err", err |-> "NoDataTypeAvailable"]
        ELSE IF ptype.type_data.kind # "Integer" THEN [status |-> "panic", err |-> ""]
        ELSE IF right.status # "ok" THEN [status |-> "err", err |-> right.err]
        ELSE [status |-> "ok", err |-> "",
              ev |-> [left |-> comp.pidx, right |-> right.v,
                      operator |-> comp.comparison_operator]]

RECURSIVE CompileAll(_, _)
\* the comparisons of a list compiled in order; the first failure ends it
CompileAll(m, comps) ==
    IF comps = <<>> THEN [status |-> "ok", err |-> "", list |-> <<>>]
    ELSE LET c == from_comparison(m, Head(comps))
             rest == CompileAll(m, Tail(comps))
         IN  IF c.status # "ok" THEN [status |-> c.status, err |-> c.err, list |-> <<>>]
             ELSE IF rest.status # "ok" THEN rest
             ELSE [status |-> "ok", err |-> "", list |-> <<c.ev>> \o rest.list]

\* ProcessorData::create_evaluator: an evaluator is the kind of its criteria and the
\* compiled comparisons (one for a Comparison)
create_evaluator(m, criteria) ==
    LET c == CompileAll(m, criteria.list)
    IN  IF c.status # "ok" THEN [status |-> c.status, err |-> c.err]
        ELSE [status |-> "ok", err |-> "", ev |-> [kind |-> criteria.kind, list |-> c.list]]

RECURSIVE ProcessorData(_, _)
\* ProcessorData::new: one evaluator for each criteria of the mdb, from index i on
ProcessorData(m, i) ==
    IF i > Len(m.match_criteria) THEN [status |-> "ok", err |-> "", evaluators |-> <<>>]
    ELSE LET e == create_evaluator(m, m.match_criteria[i])
             rest == ProcessorData(m, i + 1)
         IN  IF e.status # "ok" THEN [status |-> e.status, err |-> e.err, evaluators |-> <<>>]
             ELSE IF rest.status # "ok" THEN rest
             ELSE [status |-> "ok", err |-> "", evaluators |-> <<e.ev>> \o rest.evaluators]

\* x < y for two sequences of numbers, the first difference deciding and a proper prefix
\* being smaller: the order of str, and of numbers written with digits of equal count
LexLt(x, y) ==
    \E i \in 1..Len(y) :
        /\ \A j \in 1..(i - 1) : j <= Len(x) /\ x[j] = y[j]
        /\ i > Len(x) \/ x[i] < y[i]

\* an Int64 or Uint64 as i128: 0 before the bytes of a negative number, 1 before the others
as_i128(x) == <<IF x.t = "Int64" /\ Negative(x.v) THEN 0 ELSE 1>> \o x.v

\* the highest bit set of a u64 that is not 0
HighBit(x) == CHOOSE k \in 0..63 : Bit(x, k) = 1 /\ \A j \in (k + 1)..63 : Bit(x, j) = 0

\* x rounded to the 53 bits q of an f64, drop bits having been dropped
Rounded(x, drop, q) ==
    LET rem == And64(x, Ones64(drop))
        half == Shl(U64FromU8(1), drop - 1)
        r == IF Lt64(half, rem) \/ (rem = half /\ q[8] % 2 = 1) THEN Neg64(Not64(q)) ELSE q
    IN  IF drop = 11 /\ Bit(r, 53) = 1 THEN [over |-> 1, mag |-> Zero64]
        ELSE [over |-> 0, mag |-> Shl(r, drop)]

\* x as f64 for the magnitude x: exact up to 53 bits, else rounded to the nearest, ties to
\* even
MagAsF64(x) ==
    IF x = Zero64 \/ HighBit(x) <= 52 THEN [over |-> 0, mag |-> x]
    ELSE Rounded(x, HighBit(x) - 52, Shr(x, HighBit(x) - 52))

F64(neg, m) == [nan |-> FALSE, neg |-> neg, over |-> m.over, mag |-> m.mag]

\* x as f64 for an Int64, a Uint64 or a Double
as_f64(x) ==
    IF x.t = "Double" THEN x.d
    ELSE IF x.t = "Int64" /\ Negative(x.v) THEN F64(TRUE, MagAsF64(Neg64(x.v)))
    ELSE F64(FALSE, MagAsF64(x.v))

F64Zero(x) == x.over = 0 /\ x.mag = Zero64

\* x == y on f64: false with a NaN, true for 0.0 and -0.0
F64Eq(x, y) ==
    /\ ~x.nan /\ ~y.nan
    /\ (F64Zero(x) /\ F64Zero(y)) \/ (x.neg = y.neg /\ x.over = y.over /\ x.mag = y.mag)

\* x < y on f64: false with a NaN
F64Lt(x, y) ==
    /\ ~x.nan /\ ~y.nan
    /\ ~(F64Zero(x) /\ F64Zero(y))
    /\ IF x.neg # y.neg THEN x.neg
       ELSE IF x.neg THEN LexLt(<<y.over>> \o y.mag, <<x.over>> \o x.mag)
       ELSE LexLt(<<x.over>> \o x.mag, <<y.over>> \o y.mag)

check_equals(x, y) == IF x = y THEN OK ELSE NOK

\* check_equals on f64
check_equals_f64(x, y) == IF F64Eq(x, y) THEN OK ELSE NOK

\* the kinds of Value that are integers, and that are numbers
IntegerKinds == {"Int64", "Uint64"}
NumberKinds == {"Int64", "Uint64", "Double"}

\* compare_equal: the derived == of Value for two values of one kind, else the arms of the
\* match, the last of which is todo!()
compare_equal(x, y) ==
    IF x.t = y.t THEN (IF x.t = "Double" THEN check_equals_f64(x.d, y.d) ELSE check_equals(x, y))
    ELSE IF x.t \in IntegerKinds /\ y.t \in IntegerKinds THEN check_equals(as_i128(x), as_i128(y))
    ELSE IF x.t \in NumberKinds /\ y.t \in NumberKinds THEN check_equals_f64(as_f64(x), as_f64(y))
    ELSE IF x.t = "StringValue" /\ y.t = "Enumerated" THEN check_equals(x.v, y.value)
    ELSE IF x.t = "Enumerated" /\ y.t = "StringValue" THEN check_equals(x.value, y.v)
    ELSE PANIC

\* compare_values for i128 and &str
compare_values(operator, x, y) ==
    LET holds == CASE operator = "Equality" -> x = y
                   [] operator = "Inequality" -> x # y
                   [] operator = "LargerThan" -> LexLt(y, x)
                   [] operator = "LargerOrEqualThan" -> ~LexLt(x, y)
                   [] operator = "SmallerThan" -> LexLt(x, y)
                   [] operator = "SmallerOrEqualThan" -> ~LexLt(y, x)
    IN  IF holds THEN OK ELSE NOK

\* compare_values for f64
compare_values_f64(operator, x, y) ==
    LET holds == CASE operator = "Equality" -> F64Eq(x, y)
                   [] operator = "Inequality" -> ~F64Eq(x, y)
                   [] operator = "LargerThan" -> F64Lt(y, x)
                   [] operator = "LargerOrEqualThan" -> F64Lt(y, x) \/ F64Eq(x, y)
                   [] operator = "SmallerThan" -> F64Lt(x, y)
                   [] operator = "SmallerOrEqualThan" -> F64Lt(x, y) \/ F64Eq(x, y)
    IN  IF holds THEN OK ELSE NOK

\* compare: the arms of the match, the last of which is todo!()
compare(operator, x, y) ==
    IF x.t \in IntegerKinds /\ y.t \in IntegerKinds
    THEN compare_values(operator, as_i128(x), as_i128(y))
    ELSE IF x.t \in NumberKinds /\ y.t \in NumberKinds
    THEN compare_values_f64(operator, as_f64(x), as_f64(y))
    ELSE IF x.t = "StringValue" /\ y.t = "Enumerated" THEN compare_values(operator, x.v, y.value)
    ELSE IF x.t = "Enumerated" /\ y.t = "StringValue" THEN compare_values(operator, x.value, y.v)
    ELSE PANIC

\* RefEqualValueEvaluator::evaluate and RefValueEvaluator::evaluate
RefEvaluate(ev, pvl) ==
    LET left == get_param_value(pvl, ev.left)
    IN  IF ~left.some THEN UNDEF
        ELSE IF ev.operator = "Equality" THEN compare_equal(left.v, ev.right)
        ELSE compare(ev.operator, left.v, ev.right)

RECURSIVE AndEvaluate(_, _)
\* AndEvaluator::evaluate: for m in &self.list { if m.evaluate(ctx) != OK { return NOK } } OK
AndEvaluate(list, pvl) ==
    IF list = <<>> THEN OK
    ELSE LET r == RefEvaluate(Head(list), pvl)
         IN  IF r = PANIC THEN PANIC
             ELSE IF r # OK THEN NOK
             ELSE AndEvaluate(Tail(list), pvl)

\* CriteriaEvaluator::evaluate
evaluate(ev, pvl) ==
    IF ev.kind = "Comparison" THEN RefEvaluate(ev.list[1], pvl) ELSE AndEvaluate(ev.list, pvl)

-----------------------------------------------------------------------------
(* Extraction and calibration (proc/encodings.rs, proc/types.rs) *)

Extracted(v, pos, order, bit_offset, bit_size) ==
    [status |-> "ok", err |-> "", value |-> v, position |-> pos, byte_order |-> order,
     bit_offset |-> bit_offset, bit_size |-> bit_size]
ExtractErr(kind, pos, order) ==
    [status |-> "err", err |-> kind, value |-> Uint64(Zero64), position |-> pos,
     byte_order |-> order, bit_offset |-> 0, bit_size |-> 0]
ExtractPanic(pos, order) == [ExtractErr("", pos, order) EXCEPT !.status = "panic"]

\* the outcome of an entry that is not extracted
NotExtracted(status, err, pos, order, pvl) ==
    [status |-> status, err |-> err, position |-> pos, byte_order |-> order,
     result |-> pvl, bit_offset |-> pos]

\* the value of the Unsigned encoding made of the bits bv read at pos
UnsignedValue(ide, pos, bv) ==
    IF bv.status # "ok" THEN ExtractPanic(bv.position, ide.byte_order)
    ELSE Extracted(uint_value(ide.size_in_bits, bv.value), bv.position, ide.byte_order,
                   pos, ide.size_in_bits)

\* TwosComplement with a logical shift for the arithmetic one
TwosComplementNoSign(numbits, bv) ==
    int_value(numbits, Shr(Shl(bv, 64 - numbits), 64 - numbits))

\* IntegerEncodingType::TwosComplement: (x << n) >> n on i64 with n = 64 - numbits
TwosComplement(numbits, bv) ==
    int_value(numbits, Sar(Shl(bv, 64 - numbits), 64 - numbits))

\* IntegerEncodingType::SignMagnitude
SignMagnitude(numbits, bv) ==
    IF Shr(bv, numbits - 1)[8] % 2 = 1
    THEN int_value(numbits, Neg64(And64(bv, Ones64(numbits - 1))))
    ELSE int_value(numbits, bv)

\* IntegerEncodingType::OnesComplement
OnesComplement(numbits, bv) ==
    IF Shr(bv, numbits - 1)[8] % 2 = 1
    THEN int_value(numbits, Neg64(Not64(Sar(Shl(bv, 64 - numbits), 64 - numbits))))
    ELSE int_value(numbits, bv)

\* the value of a signed encoding made of the bits bv read at pos
SignedValue(ide, pos, bv) ==
    IF bv.status # "ok" THEN ExtractPanic(bv.position, ide.byte_order)
    ELSE Extracted(IF ide.encoding = "TwosComplement"
                   THEN TwosComplement(ide.size_in_bits, bv.value)
                   ELSE IF ide.encoding = "SignMagnitude"
                   THEN SignMagnitude(ide.size_in_bits, bv.value)
                   ELSE OnesComplement(ide.size_in_bits, bv.value),
                   bv.position, ide.byte_order, pos, ide.size_in_bits)

\* extract_integer after get_bits returned bv
IntegerValue(ide, pos, bv) ==
    IF ide.encoding = "Unsigned" THEN UnsignedValue(ide, pos, bv) ELSE SignedValue(ide, pos, bv)

\* extract_integer for 1 <= size_in_bits <= 64: set_byte_order, then get_bits
extract_integer(ide, buf, pos) ==
    IntegerValue(ide, pos, get_bits(buf, pos, ide.byte_order, ide.size_in_bits))

\* the raw value made of what extract_string returned
StringExtracted(order, r) ==
    IF r.status = "err" THEN ExtractErr(r.err, r.position, order)
    ELSE IF r.status = "panic" THEN ExtractPanic(r.position, order)
    ELSE Extracted(StringValue(r.value), r.position, order, r.bit_offset, r.bit_size)

\* an f64 read from a packet, by the bits it was made from: 32 of an f32 or 64
DoubleOfBits(numbits, bv) == [t |-> "Double", bits |-> bv, of |-> numbits]

\* the value of the float encoding made of the bits bv read at pos
FloatValue(fde, pos, bv) ==
    IF bv.status # "ok" THEN ExtractPanic(bv.position, fde.byte_order)
    ELSE Extracted(IF fde.encoding = "IEEE754_1985"
                   THEN DoubleOfBits(IF fde.size_in_bits = 32 THEN 32 ELSE 64, bv.value)
                   ELSE TwosComplement(fde.size_in_bits, bv.value),
                   bv.position, fde.byte_order, pos, fde.size_in_bits)

\* extract_float: set_byte_order, then get_bits
extract_float(fde, buf, pos) ==
    FloatValue(fde, pos, get_bits(buf, pos, fde.byte_order, fde.size_in_bits))

\* the ContainerPosition that an extraction returned
ContainerPosition(r) ==
    [bit_offset |-> r.bit_offset, bit_size |-> r.bit_size,
     details |-> IF "details" \in DOMAIN r THEN r.details ELSE [kind |-> "None"]]

\* extract_aggregate after its loop, which began at bit_offset0 and ended at bit_offset1
AggregateExtracted(aggrm, posm, bit_offset0, bit_offset1, order) ==
    [status |-> "ok", err |-> "", value |-> [t |-> "Aggregate", members |-> aggrm],
     position |-> bit_offset1, byte_order |-> order,
     bit_offset |-> bit_offset1, bit_size |-> bit_offset1 - bit_offset0,
     details |-> [kind |-> "Aggregate", posm |-> posm]]

RECURSIVE extract(_, _, _, _, _, _)
RECURSIVE extract_members(_, _, _, _, _, _, _, _, _, _)

\* the loop of extract_aggregate after the member k returned r
MemberExtracted(members, k, buf, bit_offset0, pvl, chk, aggrm, posm, r) ==
    IF r.status # "ok" THEN r
    ELSE extract_members(members, k + 1, buf, bit_offset0, r.position, r.byte_order, pvl, chk,
                         MapInsert(aggrm, members[k].name, r.value),
                         MapInsert(posm, members[k].name, ContainerPosition(r)))

\* the loop of extract_aggregate from the member k on, the cursor being at pos
extract_members(members, k, buf, bit_offset0, pos, order, pvl, chk, aggrm, posm) ==
    IF k > Len(members) THEN AggregateExtracted(aggrm, posm, bit_offset0, pos, order)
    ELSE MemberExtracted(members, k, buf, bit_offset0, pvl, chk, aggrm, posm,
                         extract(members[k].dtype, buf, pos, order, pvl, chk))

\* extract_aggregate: the members in order; a member is kept here with its data type
extract_aggregate(atype, buf, pos, order, pvl, chk) ==
    extract_members(atype.members, 1, buf, pos, pos, order, pvl, chk, <<>>, <<>>)

\* types::extract and extract_encoding for the integer, float, string and aggregate types
extract(dtype, buf, pos, order, pvl, chk) ==
    IF dtype.encoding.kind = "None"
    THEN (IF dtype.type_data.kind = "Aggregate"
          THEN extract_aggregate(dtype.type_data, buf, pos, order, pvl, chk)
          ELSE ExtractErr("InvalidMdb", pos, order))
    ELSE IF dtype.encoding.kind = "Integer" THEN extract_integer(dtype.encoding, buf, pos)
    ELSE IF dtype.encoding.kind = "Float" THEN extract_float(dtype.encoding, buf, pos)
    ELSE StringExtracted(order, extract_string(dtype.encoding.sde, buf, pos, order, pvl, chk))

\* types::calibrate without calibrator: from_unsigned_integer to an unsigned integer type,
\* from_string to a string type (its other arms are todo!())
calibrate(rawv, dtype) ==
    IF rawv.t = "Uint64" /\ dtype.type_data.kind = "Integer"
    THEN [status |-> "ok", v |-> uint_value(dtype.type_data.size_in_bits, rawv.v)]
    ELSE IF rawv.t = "StringValue" /\ dtype.type_data.kind = "String"
    THEN [status |-> "ok", v |-> rawv]
    ELSE [status |-> "panic", v |-> rawv]

\* ctx.result.push(pv) with the calibrated value eng
Pushed(pidx, pvl, pos, raw, eng) ==
    IF eng.status # "ok"
    THEN NotExtracted("panic", "", raw.position, raw.byte_order, pvl)
    ELSE [status |-> "ok", err |-> "", position |-> raw.position,
          byte_order |-> raw.byte_order,
          result |-> push(pvl, [pidx |-> pidx, raw_value |-> raw.value, eng_value |-> eng.v]),
          bit_offset |-> raw.bit_offset]

\* extract_parameter after types::extract returned raw
Calibrated(pidx, dtype, pvl, pos, raw) ==
    IF raw.status # "ok"
    THEN [NotExtracted(raw.status, raw.err, raw.position, raw.byte_order, pvl)
             EXCEPT !.bit_offset = pos]
    ELSE Pushed(pidx, pvl, pos, raw, calibrate(raw.value, dtype))

\* extract_parameter; bit_offset is the cursor the extraction began at
extract_parameter(m, pidx, buf, pos, order, pvl, chk) ==
    IF m.parameters[pidx].ptype = NoIdx
    THEN NotExtracted("err", "NoDataTypeAvailable", pos, order, pvl)
    ELSE Calibrated(pidx, m.parameter_types[m.parameters[pidx].ptype], pvl, pos,
                    extract(m.parameter_types[m.parameters[pidx].ptype],
                            buf, pos, order, pvl, chk))

\* extract_entry of a ParameterRef entry
extract_entry(m, entry, buf, pos, order, pvl, chk) ==
    extract_parameter(m, entry.pidx, buf, pos, order, pvl, chk)

-----------------------------------------------------------------------------
(* The container walk (proc/containers.rs) *)

MAX_PACKET_SIZE == 1073741823

\* the include condition of an entry: an entry without one is extracted
IncludeResult(pd, entry, pvl) ==
    IF entry.include_condition = NoIdx THEN OK
    ELSE evaluate(pd.evaluators[entry.include_condition], pvl)

\* every location taken from the start of the container
NewPosFromStart(lic, pos) == lic.bits

\* the bit position a location rule asks for
NewPos(lic, pos) ==
    IF lic.ref = "ContainerStart" THEN lic.bits ELSE pos + lic.bits

\* newpos < 0 || newpos > cbuf.bitsize()
OutsideContainer(newpos, buf) == newpos < 0 \/ newpos > bitsize(buf)

\* the match result of the child's restriction; no match criteria means it always matches
MatchRes(pd, child, pvl) ==
    IF child.base_container.mc = NoIdx THEN OK
    ELSE evaluate(pd.evaluators[child.base_container.mc], pvl)

\* a child entered on every result but NOK
EnterUnlessNOK(match_res) == match_res # NOK

\* if match_res == MatchResult::OK { extract_container(ctx, child)?; }
EnterChildIf(match_res) == match_res = OK

\* an error of extract_entry dropped and the loop continued
EntryErrorDropped(inc, newpos, r) ==
    [kind |-> IF r.status = "err" THEN "skip" ELSE r.status, inc |-> inc, newpos |-> newpos,
     r |-> r]

\* the entry was located at newpos and extract_entry(..)? returned r
EntryExtracted(inc, newpos, r) == [kind |-> r.status, inc |-> inc, newpos |-> newpos, r |-> r]

\* the entry once its include condition inc is evaluated
EntryIncluded(m, entry, buf, pos, order, pvl, chk, inc) ==
    LET lic == entry.location_in_container
        newpos == IF lic.some THEN NewPos(lic, pos) ELSE pos
    IN  IF inc # OK
        THEN [kind |-> "skip", inc |-> inc, newpos |-> pos,
              r |-> NotExtracted("skip", "", pos, order, pvl)]
        ELSE IF lic.some /\ OutsideContainer(newpos, buf)
        THEN [kind |-> "err", inc |-> inc, newpos |-> newpos,
              r |-> NotExtracted("err", "OutOfBounds", pos, order, pvl)]
        ELSE EntryExtracted(inc, newpos, extract_entry(m, entry, buf, newpos, order, pvl, chk))

\* one turn of the loop over the entries of a container
EntryOutcome(m, pd, entry, buf, pos, order, pvl, chk) ==
    EntryIncluded(m, entry, buf, pos, order, pvl, chk, IncludeResult(pd, entry, pvl))

-----------------------------------------------------------------------------
(* The state of a call of process *)

NoMdb == [NewMdb EXCEPT !.space_systems = <<>>]
NoPdata == [evaluators |-> <<>>]
NoRet == [status |-> "none", err |-> "", list |-> None]
NoFail == [some |-> FALSE]

\* no integer is being extracted or sized
NoIde == [kind |-> "Integer", size_in_bits |-> 8, byte_order |-> BigEndian, encoding |-> "Unsigned"]
NoInt == [ExtractErr("", 0, BigEndian) EXCEPT !.status = "none"]
NoArgs == [f |-> "none", num_bits |-> 64, x |-> Zero64]
NoValue == [t |-> "none", v |-> Zero64]
NoInteger == enc = NoIde /\ ires = NoInt /\ vin = NoArgs /\ vout = NoValue

\* no reference is being resolved
NoNameTree == [name_db |-> {}, systems |-> <<>>]
NoReq == [reference |-> <<>>, relative_to |-> <<>>, rtype |-> "none"]
NoRes == [status |-> "none"]
NoTree == name_tree = NoNameTree /\ req = NoReq /\ resolved = NoRes

\* no document is being loaded
NoLoad ==
    /\ doc = <<>> /\ lpc = "none" /\ tovisit = {} /\ unresolved = <<>> /\ unresolved1 = <<>>
    /\ li = 0 /\ lret = [status |-> "none"] /\ raised = <<>> /\ pret = [status |-> "none"]

\* no function is called on its own
NoneCalled == [f |-> "none"]
NotReturned == [status |-> "none"]
LateIdle == fcall = NoneCalled /\ fret = NotReturned

\* the variables of the other specifications hold nothing
OthersIdle == NoInteger /\ calls = <<>> /\ NoTree /\ NoLoad /\ LateIdle

\* no packet is being processed
NoProcess ==
    /\ mdb = NoMdb /\ root = NoIdx /\ pc = "none" /\ stack = <<>> /\ pdata = NoPdata
    /\ ret = NoRet /\ evlog = <<>> /\ hist = <<>> /\ entered = <<>> /\ failed = NoFail

-----------------------------------------------------------------------------
(* The bit reader driven through its interface *)

RECURSIVE Cycle(_, _)
\* the first n bytes of a pattern repeated for ever
Cycle(pat, n) == IF n = 0 THEN <<>> ELSE Append(Cycle(pat, n - 1), pat[((n - 1) % Len(pat)) + 1])

TestBE == <<24, 122, 35, 255>>      \* 18 7A 23 FF  (test_bigendian, test_little_endian)
TestLE1 == <<3, 128, 255, 255>>     \* 03 80 FF FF  (test_little_endian_read1)

Buffers ==
    {TestBE, TestLE1,
     Cycle(<<165, 60, 150, 1, 254, 90, 195>>, MaxBufLen),
     Cycle(<<128, 1, 127, 254, 85>>, MaxBufLen)}

\* no value is waiting to be taken by the caller
\* the values of the variables a specification does not use
NoSde == [size |-> [kind |-> "Fixed", x |-> 0], box |-> [kind |-> "Undefined", x |-> 0],
          max_box |-> None]
NoStr == [StrErr("", 0) EXCEPT !.status = "none"]

NoCall == [op |-> "none", start |-> 0, n |-> 0, order |-> BigEndian,
           status |-> "ok", value |-> Zero64]

\* BitBuffer::wrap
InitBits ==
    /\ b \in Buffers
    /\ position = 0
    /\ byte_order = BigEndian
    /\ last = NoCall
    /\ result = NewPvList
    /\ sde = NoSde /\ sres = NoStr
    /\ NoProcess /\ OthersIdle

Running == last.status = "ok"

set_position(p) ==
    /\ Running
    /\ position' = p
    /\ last' = NoCall
    /\ UNCHANGED <<b, byte_order>>

set_byte_order(o) ==
    /\ Running
    /\ byte_order' = o
    /\ last' = NoCall
    /\ UNCHANGED <<b, position>>

\* a call of get_bits: the caller has taken the value of the call before
GetBits(n) ==
    /\ Running
    /\ last.op # "get_bits"
    /\ LET res == get_bits(b, position, byte_order, n)
       IN  /\ position' = res.position
           /\ last' = [op |-> "get_bits", start |-> position, n |-> n, order |-> byte_order,
                       status |-> res.status, value |-> res.value]
    /\ UNCHANGED <<b, byte_order>>

\* the caller takes the returned value (the u64 is moved out of the call)
TakeValue ==
    /\ Running
    /\ last.op = "get_bits"
    /\ last' = NoCall
    /\ UNCHANGED <<b, position, byte_order>>

NextBits ==
    \/ TakeValue /\ UNCHANGED <<result, strvars, othervars, procvars>>
    \/ \E p \in 0..(bitsize(b) + 1) : set_position(p) /\ UNCHANGED <<result, strvars, othervars, procvars>>
    \/ \E o \in ByteOrder : set_byte_order(o) /\ UNCHANGED <<result, strvars, othervars, procvars>>
    \/ \E n \in 1..(MaxNumBits + 1) : GetBits(n) /\ UNCHANGED <<result, strvars, othervars, procvars>>

vars == <<b, position, byte_order, last, result, sde, sres, procvars, othervars>>

SpecBits == InitBits /\ [][NextBits]_vars

-----------------------------------------------------------------------------
(* The bit reader: reference values and claims C1 to C4 *)

\* bit k (from 0) of the buffer read as one stream, most significant bit first
StreamBit(buf, k) == (buf[(k \div 8) + 1] \div (2 ^ (7 - (k % 8)))) % 2

\* bit k (from 0, least significant) of the buffer read as a little-endian integer
LittleEndianBit(buf, k) == (buf[(k \div 8) + 1] \div (2 ^ (k % 8))) % 2

\* the binary digits, most significant first, of the value a read of n bits at p is to return
RefDigits(buf, p, n, order) ==
    IF order = BigEndian
    THEN [i \in 1..n |-> StreamBit(buf, p + i - 1)]
    ELSE [i \in 1..n |-> LittleEndianBit(buf, p + n - i)]

\* the u64 with the given binary digits (at most 64 of them)
DigitsToU64(d) ==
    LET bit(k) == IF k > 64 - Len(d) THEN d[k - (64 - Len(d))] ELSE 0
    IN  [j \in 1..8 |-> bit(8 * j - 7) * 128 + bit(8 * j - 6) * 64 + bit(8 * j - 5) * 32
                        + bit(8 * j - 4) * 16 + bit(8 * j - 3) * 8 + bit(8 * j - 2) * 4
                        + bit(8 * j - 1) * 2 + bit(8 * j)]

\* the last call was get_bits(n) at position p under the given byte order
ReadAt(buf, order, p, n) ==
    /\ b = buf /\ last.op = "get_bits" /\ last.order = order /\ last.start = p /\ last.n = n

\* a read that lies inside the buffer
ReadInside == last.op = "get_bits" /\ last.n <= MaxNumBits /\ last.start + last.n <= bitsize(b)

\* C1: in big-endian mode get_bits(n) at position p, with 1 <= n <= 64 and p+n <= 8|B|,
\* returns the unsigned integer whose binary digits are bits p..p+n-1 of B read as one
\* MSB-first bit stream; on 18 7A 23 FF it returns 0x18, 0x87, 0x87A and 0x87A23 for
\* (p,n) = (0,8), (4,8), (4,12), (4,20).
C1_BigEndianValue ==
    /\ (ReadInside /\ last.order = BigEndian) =>
            /\ last.status = "ok"
            /\ last.value = DigitsToU64(RefDigits(b, last.start, last.n, BigEndian))
    /\ ReadAt(TestBE, BigEndian, 0, 8) => last.value = <<0, 0, 0, 0, 0, 0, 0, 24>>
    /\ ReadAt(TestBE, BigEndian, 4, 8) => last.value = <<0, 0, 0, 0, 0, 0, 0, 135>>
    /\ ReadAt(TestBE, BigEndian, 4, 12) => last.value = <<0, 0, 0, 0, 0, 0, 8, 122>>
    /\ ReadAt(TestBE, BigEndian, 4, 20) => last.value = <<0, 0, 0, 0, 0, 8, 122, 35>>

\* a big-endian read of 20 bits at bit 4 of 18 7A 23 FF has returned 0x87A23
C1_Witness ==
    ReadAt(TestBE, BigEndian, 4, 20) /\ last.status = "ok"
        /\ last.value = <<0, 0, 0, 0, 0, 8, 122, 35>>

\* C2: in little-endian mode get_bits(n) at position p, with 1 <= n <= 64 and p+n <= 8|B|,
\* returns (LE(B) >> p) mod 2^n; on 18 7A 23 FF it returns 0x18, 0xA1, 0x7A18, 0x237A1 and
\* 0xFF237A18, and reads of 3, 12 and 17 bits in a row on 03 80 FF FF return 3, 0, 0x1FFFF.
C2_LittleEndianValue ==
    /\ (ReadInside /\ last.order = LittleEndian) =>
            /\ last.status = "ok"
            /\ last.value = DigitsToU64(RefDigits(b, last.start, last.n, LittleEndian))
    /\ ReadAt(TestBE, LittleEndian, 0, 8) => last.value = <<0, 0, 0, 0, 0, 0, 0, 24>>
    /\ ReadAt(TestBE, LittleEndian, 4, 8) => last.value = <<0, 0, 0, 0, 0, 0, 0, 161>>
    /\ ReadAt(TestBE, LittleEndian, 0, 16) => last.value = <<0, 0, 0, 0, 0, 0, 122, 24>>
    /\ ReadAt(TestBE, LittleEndian, 4, 20) => last.value = <<0, 0, 0, 0, 0, 2, 55, 161>>
    /\ ReadAt(TestBE, LittleEndian, 0, 32) => last.value = <<0, 0, 0, 0, 255, 35, 122, 24>>
    /\ ReadAt(TestLE1, LittleEndian, 0, 3) => last.value = <<0, 0, 0, 0, 0, 0, 0, 3>>
    /\ ReadAt(TestLE1, LittleEndian, 3, 12) => last.value = Zero64
    /\ ReadAt(TestLE1, LittleEndian, 15, 17) => last.value = <<0, 0, 0, 0, 0, 1, 255, 255>>

\* the third read in a row on 03 80 FF FF, 17 bits at bit 15, has returned 0x1FFFF
C2_Witness ==
    ReadAt(TestLE1, LittleEndian, 15, 17) /\ last.status = "ok"
        /\ last.value = <<0, 0, 0, 0, 0, 1, 255, 255>> /\ position = 32

\* C3: after a successful get_bits(n), 1 <= n <= 64, in either byte order and from any
\* position p with p+n <= 8|B|, the cursor is exactly p+n (also when the value fits inside
\* one byte), and the value returned is a function of (B, p, n, byte_order) alone.
C3_CursorAdvance ==
    ReadInside =>
        /\ last.status = "ok"
        /\ position = last.start + last.n
        /\ last.value = DigitsToU64(RefDigits(b, last.start, last.n, last.order))

\* a little-endian read that fits inside one byte (3 bits at bit 1) has moved the cursor to 4
C3_Witness ==
    ReadAt(TestBE, LittleEndian, 1, 3) /\ last.status = "ok" /\ position = 4
        /\ last.value = <<0, 0, 0, 0, 0, 0, 0, 4>>

\* C4: get_bits(n) called when position+n exceeds the size of the buffer in bits fails with
\* an OutOfBounds error value: it returns no value and does not abort the process.
C4_OutOfBoundsError ==
    (last.op = "get_bits" /\ last.n <= MaxNumBits /\ last.start + last.n > bitsize(b))
        => last.status = "OutOfBounds"

-----------------------------------------------------------------------------
(* extract_string applied to every encoding, buffer and cursor of a small set *)

\* the parameter a dynamic box size refers to
DynParam == 1

StrBytes == {0, 2, 97, 255}

RECURSIVE SeqsUpTo(_, _)
\* the sequences over S of length n or less
SeqsUpTo(S, n) ==
    IF n = 0 THEN {<<>>}
    ELSE LET shorter == SeqsUpTo(S, n - 1)
         IN  shorter \cup {Append(q, x) : q \in {r \in shorter : Len(r) = n - 1}, x \in S}

StrBuffers == SeqsUpTo(StrBytes, MaxStrBuf)

StringEncodings ==
    [size : {[kind |-> "Fixed", x |-> 16], [kind |-> "LeadingSize", x |-> 1],
             [kind |-> "LeadingSize", x |-> 2], [kind |-> "LeadingSize", x |-> 4],
             [kind |-> "TerminationChar", x |-> 0]},
     box : {[kind |-> "Undefined", x |-> 0], [kind |-> "Fixed", x |-> 16],
            [kind |-> "Fixed", x |-> 24], [kind |-> "Dynamic", x |-> DynParam]},
     max_box : {None, Some(2)}]

\* the value lists in which a dynamic box size is looked up: none yet, or 24 bits
DynContexts ==
    {NewPvList,
     push(NewPvList, [pidx |-> DynParam, raw_value |-> Uint64(NatToU64(24)),
                      eng_value |-> Uint64(NatToU64(24))])}

InitStr ==
    /\ b \in StrBuffers
    /\ position \in {p \in 0..bitsize(b) : p % 8 = 0 \/ p = 4}
    /\ byte_order \in ByteOrder
    /\ last = NoCall
    /\ result \in DynContexts
    /\ sde \in StringEncodings
    /\ sres = NoStr
    /\ NoProcess /\ OthersIdle

\* extract_string returned r
Returned(r) ==
    /\ sres' = [r EXCEPT !.bit_offset = position]
    /\ position' = r.position

\* one call of extract_string; an overflowing u32 sum panics or wraps, as the build has it
ExtractString ==
    /\ sres.status = "none"
    /\ \E chk \in BOOLEAN : Returned(extract_string(sde, b, position, byte_order, result, chk))
    /\ UNCHANGED <<b, byte_order, last, result, sde, procvars, othervars>>

NextStr == ExtractString

SpecStr == InitStr /\ [][NextStr]_vars

-----------------------------------------------------------------------------
(* Claim C10: strings that end at a termination character *)

Min(x, y) == IF x < y THEN x ELSE y

\* the bytes of the buffer from the byte-aligned bit position p on
BytesFrom(buf, p) == SubSeq(buf, (p \div 8) + 1, Len(buf))

\* what the buffer and max_box_size leave for the box, in bytes
AvailBox(s, buf, p) ==
    IF s.max_box.some THEN Min(s.max_box.v, Len(BytesFrom(buf, p))) ELSE Len(BytesFrom(buf, p))

\* the box size the encoding asks for, in bytes, when it asks for one
AskedBox(s, pvl) ==
    IF s.box.kind = "Fixed" THEN s.box.x \div 8
    ELSE U64ToNat(pvl.entries[Len(pvl.entries)].pv.eng_value.v) \div 8

\* a call of extract_string on a termination-character string at a byte-aligned position,
\* whose box, when the encoding asks for one, is there and fits
TermCase ==
    /\ sres.status # "none"
    /\ sde.size.kind = "TerminationChar"
    /\ sres.bit_offset % 8 = 0
    /\ sde.box.kind = "Dynamic" => result.entries # <<>>
    /\ sde.box.kind # "Undefined" => AskedBox(sde, result) <= AvailBox(sde, b, sres.bit_offset)

\* bmr of a TermCase: the asked box, or all that is available
TermBmr ==
    IF sde.box.kind = "Undefined" THEN AvailBox(sde, b, sres.bit_offset) ELSE AskedBox(sde, result)

\* the bytes in which the terminator is looked for
TermWindow == SubSeq(BytesFrom(b, sres.bit_offset), 1, TermBmr)

TermFound == \E i \in 1..Len(TermWindow) : TermWindow[i] = sde.size.x

FirstTerm == CHOOSE i \in 1..Len(TermWindow) :
                /\ TermWindow[i] = sde.size.x
                /\ \A j \in 1..(i - 1) : TermWindow[j] # sde.size.x

-----------------------------------------------------------------------------
(* Claim C11: strings that follow a size tag *)

\* a call of extract_string on a leading-size string at a byte-aligned position, whose box,
\* when the encoding asks for one, is there and fits, and whose tag lies within bmr
LeadCase ==
    /\ sres.status # "none"
    /\ sde.size.kind = "LeadingSize"
    /\ sres.bit_offset % 8 = 0
    /\ sde.box.kind = "Dynamic" => result.entries # <<>>
    /\ sde.box.kind # "Undefined" => AskedBox(sde, result) <= AvailBox(sde, b, sres.bit_offset)
    /\ sde.size.x <= TermBmr

\* the bytes of the tag, most significant first
LeadTag ==
    LET t == SubSeq(BytesFrom(b, sres.bit_offset), 1, sde.size.x)
    IN  IF byte_order = BigEndian THEN t ELSE [i \in 1..Len(t) |-> t[Len(t) + 1 - i]]

\* tag_bytes + L is within bmr: L is below 256 and small enough
LeadFits ==
    /\ \A i \in 1..(Len(LeadTag) - 1) : LeadTag[i] = 0
    /\ sde.size.x + LeadTag[Len(LeadTag)] <= TermBmr

\* the length L when tag_bytes + L is within bmr
LeadLength == LeadTag[Len(LeadTag)]

\* C11: a leading-size string with a tag of tag_bytes bytes and length L in the tag fails
\* with a DecodingError when tag_bytes + L exceeds the available box bmr, whatever L is;
\* otherwise the string is the L bytes that follow the tag and an undefined box becomes
\* tag_bytes + L.
C11_LeadingSizeString ==
    LeadCase =>
        /\ ~LeadFits => sres.status = "err" /\ sres.err = "DecodingError"
        /\ LeadFits =>
                /\ sres.status = "ok"
                /\ sres.bytes = SubSeq(BytesFrom(b, sres.bit_offset), sde.size.x + 1,
                                       sde.size.x + LeadLength)
                /\ sde.box.kind = "Undefined" =>
                        sres.bit_size = 8 * (sde.size.x + LeadLength)
                /\ sde.box.kind # "Undefined" => sres.bit_size = 8 * AskedBox(sde, result)
                /\ position = sres.bit_offset + sres.bit_size

-----------------------------------------------------------------------------
(* The container processor driven over a pool of databases and packets.   *)
(* Indexes of the model are the indexes of the source plus one; 0 is None. *)

IntegerType(bits, order) ==
    [type_data |-> [kind |-> "Integer", size_in_bits |-> bits, signed |-> FALSE],
     encoding |-> [kind |-> "Integer", size_in_bits |-> bits, byte_order |-> order,
                   encoding |-> "Unsigned"]]

\* a string type whose raw value ends at the first byte 0
TerminatedStringType ==
    [type_data |-> [kind |-> "String"],
     encoding |-> [kind |-> "String",
                   sde |-> [size |-> [kind |-> "TerminationChar", x |-> 0],
                            box |-> [kind |-> "Undefined", x |-> 0], max_box |-> None]]]

\* a base type that was given no encoding
NoEncodingType == [IntegerType(8, BigEndian) EXCEPT !.encoding = [kind |-> "None"]]

ParameterTypes ==
    <<IntegerType(4, BigEndian), IntegerType(8, LittleEndian), TerminatedStringType,
      NoEncodingType>>

\* P1 of 4 bits, P2 of 8 bits, the string P3, P4 without type, P5 without encoding
Parameters ==
    <<[ptype |-> 1], [ptype |-> 2], [ptype |-> 3], [ptype |-> NoIdx], [ptype |-> 4]>>

\* P1 == 1; P2 == 2; the list (P1 == 1, P2 == 2); P1 > 0
Criteria ==
    <<[kind |-> "Comparison", list |-> <<Comparison(1, "Equality", 1)>>],
      [kind |-> "Comparison", list |-> <<Comparison(2, "Equality", 2)>>],
      [kind |-> "ComparisonList",
       list |-> <<Comparison(1, "Equality", 1), Comparison(2, "Equality", 2)>>],
      [kind |-> "Comparison", list |-> <<Comparison(1, "LargerThan", 0)>>]>>

\* the same with a comparison whose literal does not fit the 4 bits of P1
CriteriaOutOfRange ==
    Criteria \o <<[kind |-> "Comparison", list |-> <<Comparison(1, "Equality", 16)>>]>>

RootEntries ==
    {ParameterRefEntry(NoLoc, NoIdx, 1),
     ParameterRefEntry(Loc("ContainerStart", 8), NoIdx, 2),
     ParameterRefEntry(Loc("PreviousEntry", 4), 1, 1),
     ParameterRefEntry(Loc("PreviousEntry", -8), NoIdx, 1),
     ParameterRefEntry(NoLoc, 3, 2),
     ParameterRefEntry(NoLoc, NoIdx, 4)}

ChildEntries ==
    {ParameterRefEntry(NoLoc, NoIdx, 3),
     ParameterRefEntry(Loc("ContainerStart", 16), NoIdx, 2),
     ParameterRefEntry(NoLoc, 2, 5),
     ParameterRefEntry(Loc("PreviousEntry", -4), 4, 1)}

GrandChildEntries ==
    {ParameterRefEntry(NoLoc, NoIdx, 1),
     ParameterRefEntry(Loc("ContainerStart", 8), NoIdx, 2),
     ParameterRefEntry(Loc("ContainerStart", 0), 3, 2)}

Container(name, base, entries) ==
    [name |-> name, idx |-> NoIdx, base_container |-> base, entries |-> entries]

\* a database of three containers: a root, a child of it, and a third that is a child of
\* the first or of the second
BuildMdb(criteria, e1, e2, e3, e4, g2, g3, base3) ==
    AddContainers([NewMdb EXCEPT !.parameters = Parameters,
                                 !.parameter_types = ParameterTypes,
                                 !.match_criteria = criteria],
                  RootQn,
                  <<Container("c1", NoBase, <<e1, e2>>),
                    Container("c2", Base(1, g2), <<e3>>),
                    Container("c3", Base(base3, g3), <<e4>>)>>)

Databases ==
    {BuildMdb(Criteria, e1, e2, e3, e4, g2, g3, base3) :
        e1 \in RootEntries, e2 \in RootEntries, e3 \in ChildEntries, e4 \in GrandChildEntries,
        g2 \in {NoIdx, 1, 2, 3}, g3 \in {NoIdx, 4}, base3 \in {1, 2}}
    \cup
    {BuildMdb(CriteriaOutOfRange, e1, e1, e3, e4, NoIdx, NoIdx, 1) :
        e1 \in RootEntries, e3 \in ChildEntries, e4 \in GrandChildEntries}

Packets == {<<16>>, <<16, 2>>, <<16, 2, 97, 0>>, <<32, 2, 0>>}

InitProc ==
    /\ mdb \in Databases
    /\ root \in {1, 2}
    /\ b \in Packets
    /\ position = 0
    /\ byte_order = BigEndian
    /\ last = NoCall
    /\ result = NewPvList
    /\ sde = NoSde /\ sres = NoStr
    /\ pc = "idle" /\ stack = <<>> /\ pdata = NoPdata
    /\ ret = NoRet /\ evlog = <<>> /\ hist = <<>> /\ entered = <<>> /\ failed = NoFail
    /\ OthersIdle


\* a call of extract_container on container c: at its first entry and its first child
Frame(c) == [c |-> c, e |-> 1, k |-> 1]

Top == stack[Len(stack)]
TopContainer == mdb.containers[Top.c]
TopEntry == TopContainer.entries[Top.e]
TopChild == mdb.containers[Children(mdb, Top.c)[Top.k]]

\* the walk is at an entry of the container, at a child of it, or at its end
AtEntry == pc = "run" /\ Top.e <= Len(TopContainer.entries)
AtChild ==
    /\ pc = "run"
    /\ Top.e > Len(TopContainer.entries)
    /\ Top.k <= Len(Children(mdb, Top.c))
AtEnd ==
    /\ pc = "run"
    /\ Top.e > Len(TopContainer.entries)
    /\ Top.k > Len(Children(mdb, Top.c))

NextEntry == [stack EXCEPT ![Len(stack)].e = @ + 1]
NextChild == [stack EXCEPT ![Len(stack)].k = @ + 1]

\* the parameters a criteria refers to
Refs(mc) ==
    IF mc = NoIdx THEN {}
    ELSE {mdb.match_criteria[mc].list[i].pidx : i \in DOMAIN mdb.match_criteria[mc].list}

\* the record of an evaluation: where it was made, what it gave, how many values had been
\* extracted, and what the context held for the parameters referred to
Evaluation(kind, target, mc, res) ==
    [kind |-> kind, c |-> Top.c, target |-> target, mc |-> mc, res |-> res,
     at |-> Len(hist), seen |-> [p \in Refs(mc) |-> get_param_value(result, p)]]

\* the evaluation of the include condition of the entry, if it has one
LogInclude(inc) ==
    IF TopEntry.include_condition = NoIdx THEN evlog
    ELSE Append(evlog, Evaluation("include", Top.e, TopEntry.include_condition, inc))

Outcome(chk) == EntryOutcome(mdb, pdata, TopEntry, b, position, byte_order, result, chk)

\* process up to the call of extract_container on the root container
Process ==
    /\ pc = "idle"
    /\ Len(b) <= MAX_PACKET_SIZE
    /\ LET pd == ProcessorData(mdb, 1)
       IN  IF pd.status = "ok"
           THEN /\ pdata' = [evaluators |-> pd.evaluators]
                /\ pc' = "run"
                /\ stack' = <<Frame(root)>>
                /\ entered' = <<root>>
                /\ ret' = ret
           ELSE /\ pc' = "done"
                /\ ret' = [status |-> pd.status, err |-> pd.err, list |-> None]
                /\ UNCHANGED <<pdata, stack, entered>>
    /\ position' = 0
    /\ byte_order' = BigEndian
    /\ result' = NewPvList
    /\ UNCHANGED <<b, last, strvars, othervars, mdb, root, evlog, hist, failed>>

\* the include condition is not OK: continue
Skipped(out) ==
    /\ out.kind = "skip"
    /\ evlog' = LogInclude(out.inc)

SkipEntry ==
    /\ AtEntry
    /\ \E chk \in BOOLEAN : Skipped(Outcome(chk))
    /\ stack' = NextEntry
    /\ UNCHANGED <<bbvars, result, strvars, othervars, mdb, root, pc, pdata, ret, hist, entered, failed>>

\* the cursor and the byte order the extraction left
Moved(r) ==
    /\ position' = r.position
    /\ byte_order' = r.byte_order

\* the entry is located and extracted, its value pushed
Extract(out) ==
    /\ out.kind = "ok"
    /\ evlog' = LogInclude(out.inc)
    /\ Moved(out.r)
    /\ result' = out.r.result
    /\ hist' = Append(hist, [c |-> Top.c, e |-> Top.e, pidx |-> TopEntry.pidx,
                             pos0 |-> position, bit_offset |-> out.r.bit_offset,
                             pv |-> out.r.result.entries[Len(out.r.result.entries)].pv])

ExtractEntry ==
    /\ AtEntry
    /\ \E chk \in BOOLEAN : Extract(Outcome(chk))
    /\ stack' = NextEntry
    /\ UNCHANGED <<b, last, strvars, othervars, mdb, root, pc, pdata, ret, entered, failed>>

\* return Err(..) of the location rule, or the ? on extract_entry: every call in progress
\* returns the error, process too
Fail(out) ==
    /\ out.kind = "err"
    /\ evlog' = LogInclude(out.inc)
    /\ Moved(out.r)
    /\ ret' = [status |-> "err", err |-> out.r.err, list |-> None]

FailEntry ==
    /\ AtEntry
    /\ \E chk \in BOOLEAN : Fail(Outcome(chk))
    /\ failed' = [some |-> TRUE, kind |-> "err", c |-> Top.c, e |-> Top.e, pos0 |-> position]
    /\ pc' = "done"
    /\ stack' = <<>>
    /\ UNCHANGED <<b, last, result, strvars, othervars, mdb, root, pdata, hist, entered>>

\* a panic in the extraction of the entry unwinds process
PanicIn(out) ==
    /\ out.kind = "panic"
    /\ evlog' = LogInclude(out.inc)
    /\ Moved(out.r)

PanicEntry ==
    /\ AtEntry
    /\ \E chk \in BOOLEAN : PanicIn(Outcome(chk))
    /\ ret' = [status |-> "panic", err |-> "", list |-> None]
    /\ failed' = [some |-> TRUE, kind |-> "panic", c |-> Top.c, e |-> Top.e, pos0 |-> position]
    /\ pc' = "done"
    /\ stack' = <<>>
    /\ UNCHANGED <<b, last, result, strvars, othervars, mdb, root, pdata, hist, entered>>

\* the restriction match_res of the next child is logged
Restricted(match_res, enter) ==
    /\ EnterChildIf(match_res) = enter
    /\ evlog' = Append(evlog, Evaluation("restriction", TopChild.idx,
                                         TopChild.base_container.mc, match_res))

\* the restriction of the next child matches: extract_container is called on it
EnterChild ==
    /\ AtChild
    /\ Restricted(MatchRes(pdata, TopChild, result), TRUE)
    /\ stack' = Append(NextChild, Frame(TopChild.idx))
    /\ entered' = Append(entered, TopChild.idx)
    /\ UNCHANGED <<bbvars, result, strvars, othervars, mdb, root, pc, pdata, ret, hist, failed>>

\* the restriction of the next child does not match: the child is passed over
SkipChild ==
    /\ AtChild
    /\ Restricted(MatchRes(pdata, TopChild, result), FALSE)
    /\ stack' = NextChild
    /\ UNCHANGED <<bbvars, result, strvars, othervars, mdb, root, pc, pdata, ret, hist, entered, failed>>

\* Ok(()) of extract_container; that of the root container makes process return the list
Return ==
    /\ AtEnd
    /\ stack' = SubSeq(stack, 1, Len(stack) - 1)
    /\ IF Len(stack) = 1
       THEN pc' = "done" /\ ret' = [status |-> "ok", err |-> "", list |-> Some(result)]
       ELSE UNCHANGED <<pc, ret>>
    /\ UNCHANGED <<bbvars, result, strvars, othervars, mdb, root, pdata, evlog, hist, entered, failed>>

NextProc ==
    \/ Process
    \/ SkipEntry
    \/ ExtractEntry
    \/ FailEntry
    \/ PanicEntry
    \/ EnterChild
    \/ SkipChild
    \/ Return

SpecProc == InitProc /\ [][NextProc]_vars


-----------------------------------------------------------------------------
(* Properties of the container processor *)

\* the base container of a container, as the database declares it
BaseOf(c) == mdb.containers[c].base_container

\* the containers whose base container is c
ChildrenOf(c) == {d \in DOMAIN mdb.containers : BaseOf(d).some /\ BaseOf(d).c = c}

RECURSIVE IsUnder(_, _)
\* d is c or a descendant of c
IsUnder(d, c) == d = c \/ (BaseOf(d).some /\ IsUnder(BaseOf(d).c, c))

InSeq(x, seq) == \E i \in DOMAIN seq : seq[i] = x

Restrictions == {i \in DOMAIN evlog : evlog[i].kind = "restriction"}

\* C5: when the entries of a container C are exhausted, each child of C is entered if and
\* only if its restriction evaluates to OK, a child without criteria counting as OK; a
\* child whose restriction is NOK, UNDEF or ERROR is not entered and no entry of it or of
\* its descendants is extracted.
C5_ChildEnteredIffOK ==
    /\ \A i \in Restrictions :
          LET g == evlog[i]
          IN  /\ BaseOf(g.target).some /\ BaseOf(g.target).c = g.c
              /\ g.mc = BaseOf(g.target).mc
              /\ g.mc = NoIdx => g.res = OK
              /\ InSeq(g.target, entered) <=> g.res = OK
              /\ g.res # OK => \A j \in DOMAIN hist : ~IsUnder(hist[j].c, g.target)
              /\ \A j \in DOMAIN hist : hist[j].c = g.c => j <= g.at
              /\ \A j \in DOMAIN evlog :
                    evlog[j].kind = "include" /\ evlog[j].c = g.c => j < i
    /\ \A j \in DOMAIN entered :
          \/ j = 1 /\ entered[j] = root
          \/ \E i \in Restrictions : evlog[i].target = entered[j] /\ evlog[i].res = OK
    /\ \A j \in DOMAIN hist : InSeq(hist[j].c, entered)
    /\ ret.status = "ok" =>
          \A c \in DOMAIN mdb.containers : InSeq(c, entered) =>
             \A d \in ChildrenOf(c) : \E i \in Restrictions : evlog[i].target = d

\* a packet processed to its end in which one child was entered on a restriction that is
\* OK and its entry extracted, and another child passed over on one that is not
C5_Witness ==
    /\ ret.status = "ok"
    /\ \E i \in Restrictions :
          /\ evlog[i].mc # NoIdx /\ evlog[i].res = OK
          /\ \E j \in DOMAIN hist : hist[j].c = evlog[i].target
    /\ \E i \in Restrictions : evlog[i].res = UNDEF /\ ~InSeq(evlog[i].target, entered)

\* the value extracted last for parameter p among the first n extractions
Latest(p, n) ==
    LET js == {j \in 1..n : hist[j].pidx = p}
    IN  IF js = {} THEN None
        ELSE Some(hist[CHOOSE j \in js : \A k \in js : k <= j].pv.eng_value)

\* what a single comparison is to give on the value v of its parameter
ComparisonResult(cmp, v) ==
    IF ~v.some THEN UNDEF
    ELSE IF v.v.t # "Uint64" THEN ERROR
    ELSE LET x == U64ToNat(v.v.v)
             holds == CASE cmp.comparison_operator = "Equality" -> x = cmp.value
                        [] cmp.comparison_operator = "LargerThan" -> x > cmp.value
         IN  IF holds THEN OK ELSE NOK

RECURSIVE Walk(_, _)
\* the entries below container c in the order of the walk: the entries of c as declared,
\* then those of its children from child d on
Walk(c, d) ==
    IF d = 0 THEN [e \in DOMAIN mdb.containers[c].entries |-> <<c, e>>] \o Walk(c, 1)
    ELSE IF d > Len(mdb.containers) THEN <<>>
    ELSE (IF d \in ChildrenOf(c) THEN Walk(d, 0) ELSE <<>>) \o Walk(c, d + 1)

\* the place of entry e of container c in the walk from the root container
PlaceOf(c, e) == CHOOSE i \in DOMAIN Walk(root, 0) : Walk(root, 0)[i] = <<c, e>>

\* C6: the list holds the values in the order of their extraction, which is the order of
\* the walk; every evaluation of a criteria sees, for each parameter it refers to, the value
\* extracted most recently before it, and no value if the parameter is extracted later or
\* never.
C6_OrderAndVisibility ==
    /\ [i \in DOMAIN result.entries |-> result.entries[i].pv] = [i \in DOMAIN hist |-> hist[i].pv]
    /\ ret.status = "ok" => ret.list = Some(result)
    /\ \A i, j \in DOMAIN hist :
          i < j => PlaceOf(hist[i].c, hist[i].e) < PlaceOf(hist[j].c, hist[j].e)
    /\ \A i \in DOMAIN evlog :
          /\ \A p \in Refs(evlog[i].mc) : evlog[i].seen[p] = Latest(p, evlog[i].at)
          /\ evlog[i].mc # NoIdx /\ mdb.match_criteria[evlog[i].mc].kind = "Comparison" =>
                LET cmp == mdb.match_criteria[evlog[i].mc].list[1]
                IN  evlog[i].res = ComparisonResult(cmp, Latest(cmp.pidx, evlog[i].at))

\* a parameter extracted twice with different values before a criteria on it is evaluated,
\* and a criteria evaluated on a parameter that is extracted only later
C6_Witness ==
    /\ ret.status = "ok"
    /\ \E i \in DOMAIN evlog : \E p \in Refs(evlog[i].mc) :
          \E j, k \in 1..evlog[i].at :
             /\ j < k /\ hist[j].pidx = p /\ hist[k].pidx = p
             /\ hist[j].pv.eng_value # hist[k].pv.eng_value
             /\ evlog[i].seen[p] = Some(hist[k].pv.eng_value)
    /\ \E i \in DOMAIN evlog : \E p \in Refs(evlog[i].mc) :
          /\ evlog[i].seen[p] = None
          /\ \E j \in DOMAIN hist : j > evlog[i].at /\ hist[j].pidx = p

\* C7: an evaluator evaluated when a parameter it refers to has no value gives UNDEF or
\* ERROR, never OK or NOK.
C7_UndefinedNeverDecides ==
    \A i \in DOMAIN evlog :
       (\E p \in Refs(evlog[i].mc) : ~evlog[i].seen[p].some) => evlog[i].res \in {UNDEF, ERROR}


\* the entry e of container c, its parameter and the type of the parameter
EntryOf(c, e) == mdb.containers[c].entries[e]
TypeOf(c, e) == mdb.parameter_types[mdb.parameters[EntryOf(c, e).pidx].ptype]

\* the position the location rule of the entry asks for when the cursor is at pos0
AskedPos(c, e, pos0) ==
    LET lic == EntryOf(c, e).location_in_container
    IN  IF ~lic.some THEN pos0
        ELSE IF lic.ref = "ContainerStart" THEN lic.bits
        ELSE pos0 + lic.bits

\* the location rule of the entry asks for a position outside [0, size of the buffer in bits]
AsksOutside(c, e, pos0) ==
    /\ EntryOf(c, e).location_in_container.some
    /\ AskedPos(c, e, pos0) < 0 \/ AskedPos(c, e, pos0) > 8 * Len(b)

\* a terminated string cannot be taken at position p: p is inside a byte or no byte 0 follows
NoStringAt(p) == p % 8 # 0 \/ \A i \in ((p \div 8) + 1)..Len(b) : b[i] # 0

\* the fatal error the extraction of the entry is to end with, "" if it is to succeed
ExpectedError(c, e, pos0) ==
    IF AsksOutside(c, e, pos0) THEN "OutOfBounds"
    ELSE IF mdb.parameters[EntryOf(c, e).pidx].ptype = NoIdx THEN "NoDataTypeAvailable"
    ELSE IF TypeOf(c, e).encoding.kind = "None" THEN "InvalidMdb"
    ELSE IF TypeOf(c, e).encoding.kind = "String" /\ NoStringAt(AskedPos(c, e, pos0))
    THEN "DecodingError"
    ELSE ""

\* entry e of container c was extracted, or passed over on its include condition
Extracted_(c, e) == \E j \in DOMAIN hist : hist[j].c = c /\ hist[j].e = e
PassedOver(c, e) ==
    \E i \in DOMAIN evlog :
       evlog[i].kind = "include" /\ evlog[i].c = c /\ evlog[i].target = e /\ evlog[i].res # OK

\* C8: when the extraction of an entry fails with a fatal error, process returns that
\* error and no list, whatever was extracted before, and nothing more is processed; no
\* entry that is to fail is extracted or gone past.
C8_FirstErrorReturned ==
    /\ failed.some /\ failed.kind = "err" =>
          /\ ExpectedError(failed.c, failed.e, failed.pos0) # ""
          /\ ret = [status |-> "err", err |-> ExpectedError(failed.c, failed.e, failed.pos0),
                    list |-> None]
          /\ pc = "done" /\ stack = <<>>
          /\ ~ENABLED NextProc
    /\ \A j \in DOMAIN hist : ExpectedError(hist[j].c, hist[j].e, hist[j].pos0) = ""
    /\ \A k \in DOMAIN stack : \A e \in 1..(stack[k].e - 1) :
          Extracted_(stack[k].c, e) \/ PassedOver(stack[k].c, e)
    /\ ret.status = "ok" => ~failed.some /\ ret.list.some
    /\ ret.status = "err" => ~ret.list.some

\* an entry of the second container fails after values were extracted, while the third
\* container, a child of the first, is still to come
C8_Witness ==
    /\ failed.some /\ failed.kind = "err" /\ failed.c = 2
    /\ ret.status = "err" /\ ret.err = "InvalidMdb" /\ ~ret.list.some
    /\ Len(hist) >= 2 /\ Len(result.entries) >= 2
    /\ root = 1 /\ BaseOf(3).c = 1

\* the position after the extraction in hist[j]: its bits, or its box of length + 1 bytes
EndOf(j) ==
    IF TypeOf(hist[j].c, hist[j].e).encoding.kind = "Integer"
    THEN hist[j].bit_offset + TypeOf(hist[j].c, hist[j].e).encoding.size_in_bits
    ELSE hist[j].bit_offset + 8 * (Len(hist[j].pv.raw_value.v) + 1)

\* C9: an entry with a location rule is extracted at location_in_bits (ContainerStart) or
\* at the current position + location_in_bits (PreviousEntry); when that is < 0 or > the
\* size of the buffer in bits the packet fails with OutOfBounds and the entry is not
\* extracted; an entry without a location rule is extracted at the current position.
C9_LocationRule ==
    /\ \A j \in DOMAIN hist :
          /\ hist[j].bit_offset = AskedPos(hist[j].c, hist[j].e, hist[j].pos0)
          /\ ~AsksOutside(hist[j].c, hist[j].e, hist[j].pos0)
          /\ hist[j].pos0 = IF j = 1 THEN 0 ELSE EndOf(j - 1)
          /\ TypeOf(hist[j].c, hist[j].e).encoding.kind = "Integer" =>
                hist[j].pv.raw_value.v =
                   DigitsToU64(RefDigits(b, hist[j].bit_offset,
                                         TypeOf(hist[j].c, hist[j].e).encoding.size_in_bits,
                                         TypeOf(hist[j].c, hist[j].e).encoding.byte_order))
    /\ failed.some =>
          /\ failed.pos0 = IF hist = <<>> THEN 0 ELSE EndOf(Len(hist))
          /\ ~Extracted_(failed.c, failed.e)
          /\ AsksOutside(failed.c, failed.e, failed.pos0) <=>
                (ret.status = "err" /\ ret.err = "OutOfBounds")

\* PreviousEntry with -8 bits asked for at position 4: the packet fails with OutOfBounds
\* after the entry before it was extracted at the current position
C9_Witness ==
    /\ failed.some /\ ret.err = "OutOfBounds"
    /\ EntryOf(failed.c, failed.e).location_in_container = Loc("PreviousEntry", -8)
    /\ failed.pos0 = 4
    /\ Len(hist) = 1 /\ hist[1].bit_offset = 0

-----------------------------------------------------------------------------
(* extract_integer applied to every encoding at every cursor of a small set of buffers, *)
(* and Value::int_value and Value::uint_value applied to values around every power of 2 *)

TestTwos == <<255, 239>>       \* FF EF, the 16 bits of -17

IntBuffers == Buffers \cup {TestTwos}

IntegerEncodingType == {"Unsigned", "TwosComplement", "SignMagnitude", "OnesComplement"}

IntegerEncodings ==
    [kind : {"Integer"}, size_in_bits : 1..64, byte_order : ByteOrder,
     encoding : IntegerEncodingType]

One64 == U64FromU8(1)

\* 2^k, 2^k - 1, -2^k and -2^k - 1 for every k
SizingInputs ==
    UNION {{Shl(One64, k), Ones64(k), Not64(Ones64(k)), Not64(Shl(One64, k))} : k \in 0..63}

SizingArgs == [f : {"int_value", "uint_value"}, num_bits : 1..64, x : SizingInputs]

InitInt ==
    /\ \/ /\ b \in IntBuffers
          /\ position \in 0..bitsize(b)
          /\ enc \in IntegerEncodings
          /\ vin = NoArgs
       \/ /\ b = <<>> /\ position = 0
          /\ enc = NoIde
          /\ vin \in SizingArgs
    /\ byte_order = BigEndian
    /\ last = NoCall
    /\ result = NewPvList
    /\ sde = NoSde /\ sres = NoStr
    /\ ires = NoInt /\ vout = NoValue
    /\ NoProcess /\ calls = <<>> /\ NoTree /\ NoLoad /\ LateIdle

\* extract_integer returned r
IntegerReturned(r) ==
    /\ ires' = [r EXCEPT !.bit_offset = position]
    /\ position' = r.position
    /\ byte_order' = r.byte_order

\* one call of extract_integer
ExtractInteger ==
    /\ vin.f = "none" /\ ires.status = "none"
    /\ IntegerReturned(extract_integer(enc, b, position))
    /\ UNCHANGED <<b, last, result, strvars, procvars, mdbvars, treevars, loadvars, latevars, enc, vin,
                   vout>>

\* one call of Value::int_value or Value::uint_value
SizeValue ==
    /\ vin.f # "none" /\ vout.t = "none"
    /\ vout' = IF vin.f = "int_value" THEN int_value(vin.num_bits, vin.x)
                ELSE uint_value(vin.num_bits, vin.x)
    /\ UNCHANGED <<bbvars, result, strvars, procvars, mdbvars, treevars, loadvars, latevars, enc, ires,
                   vin>>

NextInt == ExtractInteger \/ SizeValue

SpecInt == InitInt /\ [][NextInt]_vars

-----------------------------------------------------------------------------
(* Claim C12: two's complement *)

\* the n binary digits d sign-extended to 64
SignExtended(d) == [k \in 1..64 |-> IF k > 64 - Len(d) THEN d[k - (64 - Len(d))] ELSE d[1]]

\* a call of extract_integer for a two's complement encoding whose bits lie in the buffer
TwosCase ==
    /\ ires.status # "none"
    /\ enc.encoding = "TwosComplement"
    /\ ires.bit_offset + enc.size_in_bits <= bitsize(b)

\* C12: the raw value extracted for a twosComplement encoding of n bits, 1 <= n <= 64, is
\* the n-bit pattern read, sign-extended from its bit n-1: the canonical two's complement
\* value in [-2^(n-1), 2^(n-1)-1].
C12_TwosComplement ==
    TwosCase =>
        /\ ires.status = "ok"
        /\ ires.value = Int64(DigitsToU64(SignExtended(
                RefDigits(b, ires.bit_offset, enc.size_in_bits, enc.byte_order))))
        /\ position = ires.bit_offset + enc.size_in_bits

\* the 16 bits FF EF gave -17
C12_Witness ==
    /\ TwosCase /\ b = TestTwos /\ ires.bit_offset = 0 /\ enc.size_in_bits = 16
    /\ enc.byte_order = BigEndian
    /\ ires.value = Int64(<<255, 255, 255, 255, 255, 255, 255, 239>>)

-----------------------------------------------------------------------------
(* Claim C13: saturation to the declared width *)

\* v as i64 is in [-2^(n-1), 2^(n-1)-1]: the bits from n-1 up are copies of the sign
SignedInRange(n, v) == \A k \in (n - 1)..63 : Bit(v, k) = Bit(v, 63)

\* v as u64 is in [0, 2^n-1]
UnsignedInRange(n, v) == \A k \in n..63 : Bit(v, k) = 0

\* 2^(n-1)-1 and -2^(n-1) as i64, 2^n-1 as u64
IsSignedMax(n, v) == \A k \in 0..63 : Bit(v, k) = IF k < n - 1 THEN 1 ELSE 0
IsSignedMin(n, v) == \A k \in 0..63 : Bit(v, k) = IF k < n - 1 THEN 0 ELSE 1
IsUnsignedMax(n, v) == \A k \in 0..63 : Bit(v, k) = IF k < n THEN 1 ELSE 0

\* C13: for every width n, 1 <= n <= 64, and every x, int_value(n, x) is an Int64 in
\* [-2^(n-1), 2^(n-1)-1] that equals x when x is in that range and is the nearer end of the
\* range otherwise; uint_value(n, x) is a Uint64 in [0, 2^n-1] that equals x when x is in
\* range and is 2^n-1 otherwise.
C13_Saturation ==
    /\ (vout.t # "none" /\ vin.f = "int_value") =>
            /\ vout.t = "Int64"
            /\ SignedInRange(vin.num_bits, vout.v)
            /\ SignedInRange(vin.num_bits, vin.x) => vout.v = vin.x
            /\ ~SignedInRange(vin.num_bits, vin.x) =>
                    IF Bit(vin.x, 63) = 0 THEN IsSignedMax(vin.num_bits, vout.v)
                    ELSE IsSignedMin(vin.num_bits, vout.v)
    /\ (vout.t # "none" /\ vin.f = "uint_value") =>
            /\ vout.t = "Uint64"
            /\ UnsignedInRange(vin.num_bits, vout.v)
            /\ UnsignedInRange(vin.num_bits, vin.x) => vout.v = vin.x
            /\ ~UnsignedInRange(vin.num_bits, vin.x) => IsUnsignedMax(vin.num_bits, vout.v)

\* int_value(8, 128) gave 127, and so did int_value(8, 2^40)
C13_Witness ==
    /\ vin.f = "int_value" /\ vin.num_bits = 8
    /\ vin.x \in {<<0, 0, 0, 0, 0, 0, 0, 128>>, <<0, 0, 1, 0, 0, 0, 0, 0>>}
    /\ vout = Int64(<<0, 0, 0, 0, 0, 0, 0, 127>>)

-----------------------------------------------------------------------------
(* The mission database built by calls of its add functions *)

MaxAdds == 3

Names == {"a", "b"}

\* the space system of the calls: the root, and one that is there once it has been created
Sub == <<"s">>
SpaceSystems == {RootQn, Sub}

\* the base container a new container is given: none, or any index
BaseContainers == {NoBase} \cup {Base(c, NoIdx) : c \in 1..MaxAdds}

InitMdb ==
    /\ mdb = NewMdb
    /\ calls = <<>>
    /\ b = <<>> /\ position = 0 /\ byte_order = BigEndian /\ last = NoCall
    /\ result = NewPvList
    /\ sde = NoSde /\ sres = NoStr
    /\ root = NoIdx /\ pc = "none" /\ stack = <<>> /\ pdata = NoPdata
    /\ ret = NoRet /\ evlog = <<>> /\ hist = <<>> /\ entered = <<>> /\ failed = NoFail
    /\ NoInteger /\ NoTree /\ NoLoad /\ LateIdle

\* no call has panicked, and one more call can be made
CanAdd == Len(calls) < MaxAdds /\ \A i \in DOMAIN calls : ~calls[i].panicked

\* the call of an add function that gave the index idx to the entity it stored
Call(kind, space_system, name, idx) ==
    [kind |-> kind, space_system |-> space_system, name |-> name, idx |-> idx,
     panicked |-> space_system \notin DOMAIN mdb.space_systems]

\* what is left of the database and of the call when the call is done: the unwrap of
\* get_space_system_mut panics when the space system is not there, after the push
Added(kind, space_system, name, idx, pushed, done) ==
    /\ calls' = Append(calls, Call(kind, space_system, name, idx))
    /\ mdb' = IF space_system \in DOMAIN mdb.space_systems THEN done ELSE pushed

NewSpaceSystem ==
    /\ CanAdd
    /\ Sub \notin DOMAIN mdb.space_systems
    /\ mdb' = new_space_system(mdb, Sub)
    /\ UNCHANGED calls

AddParameterType(space_system, name) ==
    /\ CanAdd
    /\ Added("ParameterType", space_system, name, Len(mdb.parameter_types) + 1,
             [mdb EXCEPT !.parameter_types = Append(@, [name |-> name])],
             add_parameter_type(mdb, space_system, [name |-> name]))

AddParameter(space_system, name, ptype) ==
    /\ CanAdd
    /\ Added("Parameter", space_system, name, Len(mdb.parameters) + 1,
             [mdb EXCEPT !.parameters = Append(@, [name |-> name, ptype |-> ptype])],
             add_parameter(mdb, space_system, [name |-> name, ptype |-> ptype]))

AddContainer(space_system, name, base) ==
    /\ CanAdd
    /\ Added("SequenceContainer", space_system, name, Len(mdb.containers) + 1,
             [mdb EXCEPT !.containers =
                 Append(@, [Container(name, base, <<>>) EXCEPT !.idx = Len(mdb.containers) + 1])],
             add_container(mdb, space_system, Container(name, base, <<>>)))

MdbUnchanged ==
    UNCHANGED <<bbvars, result, strvars, intvars, treevars, loadvars, latevars, root, pc, stack, pdata,
                ret, evlog, hist, entered, failed>>

NextMdb ==
    \/ NewSpaceSystem /\ MdbUnchanged
    \/ \E s \in SpaceSystems, n \in Names : AddParameterType(s, n) /\ MdbUnchanged
    \/ \E s \in SpaceSystems, n \in Names, t \in {NoIdx, 1} :
            AddParameter(s, n, t) /\ MdbUnchanged
    \/ \E s \in SpaceSystems, n \in Names, base \in BaseContainers :
            AddContainer(s, n, base) /\ MdbUnchanged

SpecMdb == InitMdb /\ [][NextMdb]_vars

-----------------------------------------------------------------------------
(* Claim C17: the reverse index of the base containers *)

\* every call made so far has returned
AllReturned == \A i \in DOMAIN calls : ~calls[i].panicked

\* how many times x is listed in the sequence seq
Count(x, seq) == Cardinality({i \in DOMAIN seq : seq[i] = x})

\* C17: after any sequence of add_container calls that returned, a container c2 is listed
\* among the children of c exactly once if and only if the base container of c2 is c, it is
\* listed nowhere otherwise, and the idx of every stored container is its place in the
\* vector of containers; so every child the container processor enumerates has a base
\* container.
C17_ReverseIndex ==
    AllReturned =>
        /\ \A c2 \in DOMAIN mdb.containers : mdb.containers[c2].idx = c2
        /\ \A c \in 1..MaxAdds, c2 \in DOMAIN mdb.containers :
                /\ (mdb.containers[c2].base_container.some
                    /\ mdb.containers[c2].base_container.c = c)
                        => Count(c2, Children(mdb, c)) = 1
                /\ ~(mdb.containers[c2].base_container.some
                     /\ mdb.containers[c2].base_container.c = c)
                        => Count(c2, Children(mdb, c)) = 0
        /\ \A c \in DOMAIN mdb.child_containers :
                \A k \in DOMAIN mdb.child_containers[c] :
                    /\ mdb.child_containers[c][k] \in DOMAIN mdb.containers
                    /\ mdb.containers[mdb.child_containers[c][k]].base_container.some

\* a container without base container was added, then two with it as base container
C17_Witness ==
    /\ AllReturned /\ Len(mdb.containers) = 3
    /\ ~mdb.containers[1].base_container.some
    /\ Children(mdb, 1) = <<2, 3>>

-----------------------------------------------------------------------------
(* Claim C18: names are unique within a space system *)

\* the entities of a kind the database stores
Stored(kind) ==
    IF kind = "ParameterType" THEN mdb.parameter_types
    ELSE IF kind = "Parameter" THEN mdb.parameters ELSE mdb.containers

\* calls i and j stored two entities of one kind under one name for one space system
SameName(i, j) ==
    /\ calls[i].kind = calls[j].kind
    /\ calls[i].space_system = calls[j].space_system
    /\ calls[i].name = calls[j].name
    /\ calls[i].idx \in DOMAIN Stored(calls[i].kind)
    /\ calls[j].idx \in DOMAIN Stored(calls[j].kind)
    /\ Stored(calls[i].kind)[calls[i].idx].name = Stored(calls[j].kind)[calls[j].idx].name

\* C18: after any sequence of add_parameter, add_parameter_type and add_container calls that
\* returned, the database stores no two parameters, no two parameter types and no two
\* containers that were added under the same name for the same space system.
C18_UniqueNames ==
    AllReturned => \A i, j \in DOMAIN calls : i # j => ~SameName(i, j)

-----------------------------------------------------------------------------
(* Claim C16: the walk down the inheritance tree ends *)

RECURSIVE BaseAfter(_, _)
\* the base container k levels above c, NoIdx when there is none
BaseAfter(c, k) ==
    IF k = 0 THEN c
    ELSE IF c \notin DOMAIN mdb.containers \/ ~BaseOf(c).some THEN NoIdx
    ELSE BaseAfter(BaseOf(c).c, k - 1)

\* no container is above itself
AcyclicBases ==
    \A c \in DOMAIN mdb.containers, k \in 1..Len(mdb.containers) : BaseAfter(c, k) # c

\* extract_container was called on no container twice, so at most |containers| times
EnteredOnce ==
    /\ \A c \in DOMAIN mdb.containers : Count(c, entered) <= 1
    /\ Len(entered) <= Len(mdb.containers)

RECURSIVE Sum(_, _)
\* the sum of f over the set S
Sum(f, S) == IF S = {} THEN 0 ELSE LET x == CHOOSE y \in S : TRUE IN f[x] + Sum(f, S \ {x})

\* the steps a call of extract_container on c takes at most: its entries, its children, its
\* return
Work(c) == Len(mdb.containers[c].entries) + Len(Children(mdb, c)) + 1

\* the steps a call in progress has left
FrameWork(f) ==
    (Len(mdb.containers[f.c].entries) - (f.e - 1)) + (Len(Children(mdb, f.c)) - (f.k - 1)) + 1

\* a bound on the steps process has left: those of the calls in progress and those of the
\* containers not entered yet
Remaining ==
    IF pc = "idle" THEN Sum([c \in DOMAIN mdb.containers |-> Work(c)], DOMAIN mdb.containers) + 1
    ELSE IF pc = "run"
    THEN Sum([c \in DOMAIN mdb.containers |-> Work(c)],
             {c \in DOMAIN mdb.containers : ~InSeq(c, entered)})
         + Sum([i \in DOMAIN stack |-> FrameWork(stack[i])], DOMAIN stack)
    ELSE 0

\* process has a step to take
CanStep ==
    \/ pc = "idle" /\ Len(b) <= MAX_PACKET_SIZE
    \/ AtEntry /\ \E chk \in BOOLEAN : Outcome(chk).kind \in {"skip", "ok", "err", "panic"}
    \/ AtChild /\ EnterChildIf(MatchRes(pdata, TopChild, result)) \in BOOLEAN
    \/ AtEnd

\* a step of process takes the bound down, and not below 0
WalkStep == AcyclicBases => (Remaining' < Remaining /\ Remaining' >= 0)

\* C16: with an acyclic base_container relation, processing a packet from any root
\* container ends: until process has returned it has a step to take, and every step takes
\* down a bound that starts at 1 + the sum over the containers of entries + children + 1;
\* extract_container is called at most once on each container, so at most |containers|
\* times.
C16_WalkTerminates ==
    /\ [][WalkStep]_vars
    /\ [](AcyclicBases => (EnteredOnce /\ (pc # "done" => CanStep)))

\* the walk from the root went through the three containers and process returned the list
C16_Witness ==
    /\ pc = "done" /\ ret.status = "ok" /\ AcyclicBases
    /\ Len(entered) = 3 /\ Len(mdb.containers) = 3

-----------------------------------------------------------------------------
(* The name tree of the loader. A string is the sequence of its characters. *)

NameReferenceType == {"ParameterType", "Parameter", "SequenceContainer", "Algorithm"}

RECURSIVE SplitAcc(_, _, _, _, _)
SplitAcc(s, sep, i, cur, acc) ==
    IF i > Len(s) THEN Append(acc, cur)
    ELSE IF s[i] = sep THEN SplitAcc(s, sep, i + 1, <<>>, Append(acc, cur))
    ELSE SplitAcc(s, sep, i + 1, Append(cur, s[i]), acc)

\* str::split: the pieces of s between the separators, empty ones included
Split(s, sep) == SplitAcc(s, sep, 1, <<>>, <<>>)

\* str::starts_with
starts_with(s, prefix) == Len(s) >= Len(prefix) /\ SubSeq(s, 1, Len(prefix)) = prefix

\* str::find: the place of the first ch in s, 0 when there is none
Find(s, ch) ==
    IF \E i \in DOMAIN s : s[i] = ch
    THEN CHOOSE i \in DOMAIN s : s[i] = ch /\ \A j \in 1..(i - 1) : s[j] # ch
    ELSE 0

\* QualifiedName::is_root, and QualifiedName::pop
is_root(qn) == qn = <<>>
Pop(qn) == IF qn = <<>> THEN qn ELSE SubSeq(qn, 1, Len(qn) - 1)

RECURSIVE to_string_from(_, _, _)
to_string_from(qn, i, r) ==
    IF i > Len(qn) THEN r ELSE to_string_from(qn, i + 1, r \o <<"/">> \o qn[i])

\* QualifiedName::to_string: "/" for the root, else "/" before every name
to_string(qn) == IF Len(qn) = 0 THEN <<"/">> ELSE to_string_from(qn, 1, <<>>)

\* NameTree with nothing in it
NewNameTree == [name_db |-> {}, systems |-> <<>>]

\* NameTree::add_sub_system when the system is not there yet
add_sub_system(tree, qn_parent, name) ==
    IF Append(qn_parent, name) \in DOMAIN tree.systems
    THEN [tree EXCEPT !.name_db = @ \cup {name}]
    ELSE [name_db |-> tree.name_db \cup {name},
          systems |-> MapInsert(tree.systems, Append(qn_parent, name),
                                [t \in NameReferenceType |-> {}])]

\* NameTree::add_node in a system that is there, for a name that is not a duplicate
add_node(tree, system, name, rtype) ==
    [name_db |-> tree.name_db \cup {name},
     systems |-> [tree.systems EXCEPT ![system][rtype] = @ \cup {name}]]

RECURSIVE MemberPathFrom(_, _, _, _)
MemberPathFrom(name_db, path, i, mp) ==
    IF i > Len(path) THEN [ok |-> TRUE, mp |-> mp]
    ELSE IF path[i] = <<>> THEN MemberPathFrom(name_db, path, i + 1, mp)
    ELSE IF path[i] \notin name_db THEN [ok |-> FALSE, mp |-> <<>>]
    ELSE MemberPathFrom(name_db, path, i + 1, Append(mp, path[i]))

\* parse_aggregate_member_path for elements without an index: the elements that are not
\* empty, each of them a name of the name database
parse_aggregate_member_path(name_db, path) == MemberPathFrom(name_db, path, 1, <<>>)

\* the item of kind rtype named pname in the space system ss, if there is one
ItemIn(tree, ss, pname, member_path, rtype) ==
    IF ss \in DOMAIN tree.systems /\ pname \in tree.systems[ss][rtype]
    THEN Some([qn |-> ss, name |-> pname, member_path |-> member_path])
    ELSE None

\* find_ref at the last component, whose name is in the name database
LastItem(tree, ss, pname, member_path, rtype) ==
    IF pname \notin tree.name_db THEN None
    ELSE ItemIn(tree, ss, pname, member_path, rtype)

\* find_ref at the last component of a parameter reference with a "." at place n
LastWithPath(tree, ss, p, n, pr, rtype) ==
    IF ~pr.ok THEN None
    ELSE LastItem(tree, ss, SubSeq(p, 1, n - 1), Some(pr.mp), rtype)

\* find_ref at the last component p
LastComponent(tree, ss, p, n, rtype) ==
    IF rtype = "Parameter" /\ n > 0
    THEN LastWithPath(tree, ss, p, n,
                      parse_aggregate_member_path(tree.name_db,
                                                  Split(SubSeq(p, n + 1, Len(p)), ".")),
                      rtype)
    ELSE LastItem(tree, ss, p, None, rtype)

\* find_ref at a component that names no space system: for a parameter the rest is taken
\* as a path into an aggregate
NoSystem(tree, ss, p, rest, pr, rtype) ==
    IF rtype # "Parameter" THEN None
    ELSE IF ss \in DOMAIN tree.systems /\ p \in tree.systems[ss][rtype]
    THEN (IF pr.ok THEN Some([qn |-> ss, name |-> p, member_path |-> Some(pr.mp)]) ELSE None)
    ELSE None

\* the loop of find_ref that ends at the parent of the root
RECURSIVE find_loop_above_root(_, _, _, _, _)
find_loop_above_root(tree, it, i, ss, rtype) ==
    IF i > Len(it) THEN None
    ELSE IF it[i] = <<".">> \/ it[i] = <<>> THEN find_loop_above_root(tree, it, i + 1, ss, rtype)
    ELSE IF it[i] = <<".", ".">>
    THEN (IF is_root(ss) THEN None ELSE find_loop_above_root(tree, it, i + 1, Pop(ss), rtype))
    ELSE IF i = Len(it) THEN LastComponent(tree, ss, it[i], Find(it[i], "."), rtype)
    ELSE IF it[i] \notin tree.name_db THEN None
    ELSE IF Append(ss, it[i]) \in DOMAIN tree.systems
    THEN find_loop_above_root(tree, it, i + 1, Append(ss, it[i]), rtype)
    ELSE NoSystem(tree, ss, it[i], SubSeq(it, i + 1, Len(it)),
                  parse_aggregate_member_path(tree.name_db, SubSeq(it, i + 1, Len(it))),
                  rtype)

\* the loop of find_ref over the components of the reference, from the i-th
RECURSIVE find_loop(_, _, _, _, _)
find_loop(tree, it, i, ss, rtype) ==
    IF i > Len(it) THEN None
    ELSE IF it[i] = <<".">> \/ it[i] = <<>> THEN find_loop(tree, it, i + 1, ss, rtype)
    ELSE IF it[i] = <<".", ".">> THEN find_loop(tree, it, i + 1, Pop(ss), rtype)
    ELSE IF i = Len(it) THEN LastComponent(tree, ss, it[i], Find(it[i], "."), rtype)
    ELSE IF it[i] \notin tree.name_db THEN None
    ELSE IF Append(ss, it[i]) \in DOMAIN tree.systems
    THEN find_loop(tree, it, i + 1, Append(ss, it[i]), rtype)
    ELSE NoSystem(tree, ss, it[i], SubSeq(it, i + 1, Len(it)),
                  parse_aggregate_member_path(tree.name_db, SubSeq(it, i + 1, Len(it))),
                  rtype)

\* NameTree::find_ref
find_ref(tree, reference, relative_to, rtype) ==
    find_loop(tree, Split(reference, "/"), 1, relative_to, rtype)

\* the loop of resolve_ref that tries the referencing space system only
resolve_loop_no_parents(tree, reference, start_ss, rtype) ==
    find_ref(tree, reference, start_ss, rtype)

\* the loop of resolve_ref: start_ss, then its parents up to the root
RECURSIVE resolve_loop(_, _, _, _)
resolve_loop(tree, reference, start_ss, rtype) ==
    IF find_ref(tree, reference, start_ss, rtype).some
    THEN find_ref(tree, reference, start_ss, rtype)
    ELSE IF is_root(start_ss) THEN None
    ELSE resolve_loop(tree, reference, Pop(start_ss), rtype)

\* NameTree::resolve_ref
resolve_ref(tree, reference, relative_to, rtype) ==
    IF starts_with(reference, <<"/">>) THEN find_ref(tree, reference, <<>>, rtype)
    ELSE IF starts_with(reference, <<".", "/">>) \/ starts_with(reference, <<".", ".">>)
    THEN find_ref(tree, reference, relative_to, rtype)
    ELSE resolve_loop(tree, reference, relative_to, rtype)

-----------------------------------------------------------------------------
(* NameTree::resolve_ref on a pool of name trees and references *)

\* the most components a reference of the pool has
MaxComponents == 3

\* the names of the pool; one has a "." in it, which the loader takes as it is
NameA == <<"a">>
NameB == <<"b">>
NameADotB == <<"a", ".", "b">>

\* the space systems /a, /a/b and /b, as build_name_tree registers them
SystemTree ==
    add_sub_system(add_sub_system(add_sub_system(NewNameTree, <<>>, NameA), <<NameA>>, NameB),
                   <<>>, NameB)

\* the items a tree of the pool may have
TreeItems ==
    { [system |-> <<NameA>>, name |-> NameA, rtype |-> "Parameter"],
      [system |-> <<NameA, NameB>>, name |-> NameA, rtype |-> "Parameter"],
      [system |-> <<NameB>>, name |-> NameB, rtype |-> "Parameter"],
      [system |-> <<NameA>>, name |-> NameADotB, rtype |-> "Parameter"],
      [system |-> <<NameA>>, name |-> NameA, rtype |-> "ParameterType"],
      [system |-> <<NameA, NameB>>, name |-> NameA, rtype |-> "ParameterType"] }

RECURSIVE AddNodes(_, _)
AddNodes(tree, items) ==
    IF items = {} THEN tree
    ELSE LET n == CHOOSE x \in items : TRUE
         IN AddNodes(add_node(tree, n.system, n.name, n.rtype), items \ {n})

NameTrees == {AddNodes(SystemTree, items) : items \in SUBSET TreeItems}

\* the components of the references of the pool
Components == {<<>>, <<".">>, <<".", ".">>, NameA, NameB, NameADotB}

RECURSIVE Join(_, _)
\* the components with "/" between them
Join(comps, i) ==
    IF i > Len(comps) THEN <<>>
    ELSE IF i = Len(comps) THEN comps[i]
    ELSE comps[i] \o <<"/">> \o Join(comps, i + 1)

References ==
    {Join(comps, 1) : comps \in UNION {[1..n -> Components] : n \in 1..MaxComponents}}

Requests ==
    [reference : References,
     relative_to : {<<>>, <<NameA>>, <<NameA, NameB>>, <<NameB>>},
     rtype : {"Parameter", "ParameterType"}]

InitTree ==
    /\ name_tree \in NameTrees
    /\ req \in Requests
    /\ resolved = NoRes
    /\ b = <<>> /\ position = 0 /\ byte_order = BigEndian /\ last = NoCall
    /\ result = NewPvList
    /\ sde = NoSde /\ sres = NoStr
    /\ NoProcess /\ NoInteger /\ calls = <<>> /\ NoLoad /\ LateIdle

\* one call of resolve_ref
ResolveRef ==
    /\ resolved.status = "none"
    /\ resolved' = [status |-> "resolved",
                    r |-> resolve_ref(name_tree, req.reference, req.relative_to, req.rtype)]

\* "/" + qn(S') + "/" + name(I) for the item found
AbsoluteOf(v) == <<"/">> \o to_string(v.qn) \o <<"/">> \o v.name

\* one more call of resolve_ref, on the absolute form of what the first call found
ResolveAbsolute ==
    /\ resolved.status = "resolved" /\ resolved.r.some
    /\ resolved' = [status |-> "absolute", r |-> resolved.r,
                    absolute |-> AbsoluteOf(resolved.r.v),
                    again |-> resolve_ref(name_tree, AbsoluteOf(resolved.r.v), req.relative_to,
                                          req.rtype)]

TreeUnchanged ==
    UNCHANGED <<bbvars, result, strvars, procvars, intvars, mdbvars, loadvars, latevars, name_tree,
                req>>

NextTree ==
    \/ ResolveRef /\ TreeUnchanged
    \/ ResolveAbsolute /\ TreeUnchanged

SpecTree == InitTree /\ [][NextTree]_vars

-----------------------------------------------------------------------------
(* Claim C19: a relative reference is matched innermost first *)

\* the reference starts with neither "/" nor "./" nor ".."
PlainRelative(reference) ==
    /\ ~starts_with(reference, <<"/">>)
    /\ ~starts_with(reference, <<".", "/">>)
    /\ ~starts_with(reference, <<".", ".">>)

\* the space system S and its ancestors up to the root, by the number of their names
Level(S, k) == SubSeq(S, 1, k)

\* the levels at which the reference matches
MatchingLevels(tree, rq) ==
    {k \in 0..Len(rq.relative_to) :
        find_ref(tree, rq.reference, Level(rq.relative_to, k), rq.rtype).some}

\* the match at the innermost level that has one, nothing when no level has one
InnermostMatch(tree, rq, levels) ==
    IF levels = {} THEN None
    ELSE find_ref(tree, rq.reference,
                  Level(rq.relative_to, CHOOSE k \in levels : \A j \in levels : j <= k),
                  rq.rtype)

\* the parent of a space system, the root being its own parent
Parent(S) == IF Len(S) = 0 THEN S ELSE SubSeq(S, 1, Len(S) - 1)

\* the reference without its first three characters
AfterDotDot(reference) ==
    IF Len(reference) <= 3 THEN <<>> ELSE SubSeq(reference, 4, Len(reference))

\* C19: a reference that starts with neither "/" nor "./" nor ".." resolves to its match
\* in the innermost of the space system S and its ancestors that has one, and to nothing
\* only when none of them has one; a leading "../" resolves as the rest of the reference
\* does from the parent of S, and a leading "/../" as the rest does from the root, the root
\* being its own parent.
C19_InnermostMatch ==
    resolved.status # "none" =>
        /\ PlainRelative(req.reference) =>
              resolved.r = InnermostMatch(name_tree, req, MatchingLevels(name_tree, req))
        /\ (req.reference = <<".", ".">> \/ starts_with(req.reference, <<".", ".", "/">>)) =>
              resolved.r = find_ref(name_tree, AfterDotDot(req.reference),
                                    Parent(req.relative_to), req.rtype)
        /\ starts_with(req.reference, <<"/", ".", ".", "/">>) =>
              resolved.r = find_ref(name_tree, SubSeq(req.reference, 4, Len(req.reference)),
                                    <<>>, req.rtype)

\* the reference "a" from /a/b matched in /a/b, which has the parameter, and not in /a,
\* which has it too
C19_Witness ==
    /\ resolved.status = "resolved"
    /\ req.reference = NameA /\ req.relative_to = <<NameA, NameB>> /\ req.rtype = "Parameter"
    /\ MatchingLevels(name_tree, req) = {1, 2}
    /\ resolved.r.some /\ resolved.r.v.qn = <<NameA, NameB>>


-----------------------------------------------------------------------------
(* Claim C20: the absolute form of what a reference resolves to resolves to the same *)

\* C20: when resolve_ref(R, S, T) returns the space system S' and the item I, resolving
\* "/" + qn(S') + "/" + name(I) from S with kind T returns the same S' and I.
C20_AbsoluteResolvesSame ==
    resolved.status = "absolute" =>
        /\ resolved.again.some
        /\ resolved.again.v.qn = resolved.r.v.qn
        /\ resolved.again.v.name = resolved.r.v.name

\* the same for the items whose name has no "." in it
C20_PlainNames ==
    (resolved.status = "absolute" /\ Find(resolved.r.v.name, ".") = 0) =>
        /\ resolved.again.some
        /\ resolved.again.v.qn = resolved.r.v.qn
        /\ resolved.again.v.name = resolved.r.v.name

-----------------------------------------------------------------------------
(* The loader: build_mdb and add_item over the entities of one space system *)

\* the space system of the document and the names its entities may have
NameS == <<"s">>
NameC == <<"c">>
DocSystem == <<NameS>>
EntityNames == {NameA, NameB, NameC}

\* the type references of the members of an aggregate parameter type, in order
MemberRefs ==
    {<<>>} \cup {<<x>> : x \in EntityNames} \cup {<<x, y>> : x, y \in EntityNames}

\* what the document has under a name: nothing, a parameter, or an aggregate parameter type
Entities ==
    {[kind |-> "none", members |-> <<>>], [kind |-> "Parameter", members |-> <<>>]}
    \cup [kind : {"ParameterType"}, members : MemberRefs]

Documents == [EntityNames -> Entities]

\* the entities of the document
Named(d) == {n \in DOMAIN d : d[n].kind # "none"}

\* build_name_tree: the space system of the document and the names of its entities
DocNameTree(d) ==
    AddNodes(add_sub_system(NewNameTree, <<>>, NameS),
             {[system |-> DocSystem, name |-> n, rtype |-> d[n].kind] : n \in Named(d)})

\* the index of the item resolve_ref found in the name tree
IndexOf(m, v, rtype) ==
    IF rtype = "ParameterType" THEN get_parameter_type_idx(m, v.qn, v.name)
    ELSE IF rtype = "Parameter" THEN get_parameter_idx(m, v.qn, v.name)
    ELSE get_container_idx(m, v.qn, v.name)

\* misc.rs resolve_ref once the name tree has answered rr
resolve_ref_found(m, rr, name, rtype) ==
    IF ~rr.some THEN [status |-> "UndefinedReference", reference |-> name, mdb |-> m]
    ELSE IF IndexOf(m, rr.v, rtype).some THEN [status |-> "Ok", reference |-> <<>>, mdb |-> m]
    ELSE [status |-> "UnresolvedReference", reference |-> name, mdb |-> m]

\* misc.rs resolve_ref: UndefinedReference for a name the name tree does not have,
\* UnresolvedReference for one the MDB does not have yet
resolve_ref_idx(m, tree, path, name, rtype) ==
    resolve_ref_found(m, resolve_ref(tree, name, path, rtype), name, rtype)

RECURSIVE read_members(_, _, _, _, _)
\* read_aggregate_parameter_type: the members in order, the first error ends it
read_members(m, tree, path, members, i) ==
    IF i > Len(members) THEN [status |-> "Ok", reference |-> <<>>, mdb |-> m]
    ELSE IF resolve_ref_idx(m, tree, path, members[i], "ParameterType").status # "Ok"
    THEN resolve_ref_idx(m, tree, path, members[i], "ParameterType")
    ELSE read_members(m, tree, path, members, i + 1)

\* types.rs add_parameter_type once the type has been read with result r
type_read(m, path, name, r) ==
    IF r.status # "Ok" THEN r
    ELSE [r EXCEPT !.mdb = add_parameter_type(m, path, [name |-> name])]

\* types.rs add_parameter_type
parser_add_parameter_type(m, tree, path, name, entity) ==
    type_read(m, path, name, read_members(m, tree, path, entity.members, 1))

\* add_item: the constructor of the entity; only parameter types have one
add_item(m, tree, path, name, entity) ==
    IF entity.kind = "ParameterType" THEN parser_add_parameter_type(m, tree, path, name, entity)
    ELSE [status |-> "Ok", reference |-> <<>>, mdb |-> m]

\* add_item: an entity with an UnresolvedReference is pushed on the queue
Deferred(queue, name, r) ==
    IF r.status = "UnresolvedReference"
    THEN Append(queue, [name |-> name, reference |-> r.reference])
    ELSE queue

\* the errors raised so far and the one of this call, if any
Raised(pass, name, r) ==
    IF r.status = "Ok" THEN raised
    ELSE Append(raised, [pass |-> pass, name |-> name, error |-> r.status,
                         reference |-> r.reference,
                         in_tree |-> r.reference \in DOMAIN doc
                                     /\ doc[r.reference].kind = "ParameterType",
                         in_mdb |-> \E i \in DOMAIN mdb.parameter_types :
                                        mdb.parameter_types[i].name = r.reference])

\* the MDB given to build_mdb: the space system of the document is there
LoaderMdb == new_space_system(NewMdb, DocSystem)

\* build_mdb is about to start on a document
LoaderStarts ==
    /\ doc \in Documents
    /\ name_tree = DocNameTree(doc)
    /\ mdb = LoaderMdb
    /\ tovisit = Named(doc)
    /\ lpc = IF Named(doc) = {} THEN "while" ELSE "first"
    /\ unresolved = <<>> /\ unresolved1 = <<>> /\ li = 0
    /\ lret = [status |-> "none"] /\ pret = [status |-> "none"] /\ raised = <<>>
    /\ req = NoReq /\ resolved = NoRes
    /\ b = <<>> /\ position = 0 /\ byte_order = BigEndian /\ last = NoCall
    /\ result = NewPvList
    /\ sde = NoSde /\ sres = NoStr
    /\ root = NoIdx /\ pc = "none" /\ stack = <<>> /\ pdata = NoPdata
    /\ ret = NoRet /\ evlog = <<>> /\ hist = <<>> /\ entered = <<>> /\ failed = NoFail
    /\ NoInteger /\ calls = <<>>

InitLoad == LoaderStarts /\ LateIdle

\* the kinds of which the first pass has visited some entities and not all: the pass goes
\* through the names kind by kind
KindsInProgress ==
    {k \in NameReferenceType :
        /\ \E n \in Named(doc) \ tovisit : doc[n].kind = k
        /\ \E n \in tovisit : doc[n].kind = k}

\* the first pass of build_mdb called add_item on the entity and got r
FirstPassItemWith(name, r) ==
    /\ raised' = Raised("first", name, r)
    /\ IF r.status = "UndefinedReference"
       THEN /\ lret' = [status |-> "UndefinedReference"]
            /\ lpc' = "built"
            /\ UNCHANGED <<mdb, tovisit, unresolved>>
       ELSE /\ mdb' = r.mdb
            /\ unresolved' = Deferred(unresolved, name, r)
            /\ tovisit' = tovisit \ {name}
            /\ lpc' = IF tovisit = {name} THEN "while" ELSE "first"
            /\ UNCHANGED lret

\* build_mdb, first pass: one entity, in the order of the hash maps
FirstPassItem(name) ==
    /\ lpc = "first" /\ name \in tovisit
    /\ \A k \in KindsInProgress : doc[name].kind = k
    /\ FirstPassItemWith(name, add_item(mdb, name_tree, DocSystem, name, doc[name]))
    /\ UNCHANGED <<unresolved1, li, pret>>

\* build_mdb: while !unresolved.is_empty()
WhileTest ==
    /\ lpc = "while"
    /\ IF unresolved = <<>>
       THEN /\ lret' = [status |-> "Ok"]
            /\ lpc' = "built"
            /\ UNCHANGED <<unresolved1, li>>
       ELSE /\ unresolved1' = <<>>
            /\ li' = 1
            /\ lpc' = "retry"
            /\ UNCHANGED lret
    /\ UNCHANGED <<mdb, tovisit, unresolved, raised, pret>>

\* the retry pass called add_item on the entity and got r, which it drops
RetryItemWith(name, r) ==
    /\ raised' = Raised("retry", name, r)
    /\ mdb' = r.mdb
    /\ unresolved1' = Deferred(unresolved1, name, r)
    /\ li' = li + 1

\* build_mdb, retry pass: the next entity of the queue
RetryItem ==
    /\ lpc = "retry" /\ li <= Len(unresolved)
    /\ RetryItemWith(unresolved[li].name,
                     add_item(mdb, name_tree, DocSystem, unresolved[li].name,
                              doc[unresolved[li].name]))
    /\ UNCHANGED <<tovisit, unresolved, lpc, lret, pret>>

\* build_mdb, end of a retry pass: no progress is an error, else the new queue is tried
PassEnd ==
    /\ lpc = "retry" /\ li > Len(unresolved)
    /\ IF Len(unresolved) = Len(unresolved1)
       THEN /\ lret' = [status |-> "UnresolvedReferences"]
            /\ lpc' = "built"
            /\ UNCHANGED unresolved
       ELSE /\ unresolved' = unresolved1
            /\ lpc' = "while"
            /\ UNCHANGED lret
    /\ UNCHANGED <<mdb, tovisit, unresolved1, li, raised, pret>>

\* parse: the result of build_mdb is dropped
ParseReturn ==
    /\ lpc = "built"
    /\ pret' = [status |-> "Ok"]
    /\ lpc' = "done"
    /\ UNCHANGED <<mdb, tovisit, unresolved, unresolved1, li, lret, raised>>

LoadUnchanged ==
    UNCHANGED <<bbvars, result, strvars, intvars, mdbvars, latevars, name_tree, req, resolved, doc, root,
                pc, stack, pdata, ret, evlog, hist, entered, failed>>

NextLoad ==
    \/ \E n \in EntityNames : FirstPassItem(n) /\ LoadUnchanged
    \/ WhileTest /\ LoadUnchanged
    \/ RetryItem /\ LoadUnchanged
    \/ PassEnd /\ LoadUnchanged
    \/ ParseReturn /\ LoadUnchanged

SpecLoad == InitLoad /\ [][NextLoad]_vars

-----------------------------------------------------------------------------
(* Claim C14: the construction fixpoint of the loader *)

RECURSIVE PassBound(_)
\* the steps build_mdb takes at most from the test of its loop with q entities queued: the
\* test, and when q > 0 a pass over the q entities, its end, and the same for a shorter queue
PassBound(q) == IF q = 0 THEN 1 ELSE q + 2 + PassBound(q - 1)

\* a bound on the steps the loader has left
LoadRemaining ==
    IF lpc = "first" THEN Cardinality(tovisit) + PassBound(Len(unresolved) + Cardinality(tovisit)) + 1
    ELSE IF lpc = "while" THEN PassBound(Len(unresolved)) + 1
    ELSE IF lpc = "retry"
    THEN (Len(unresolved) + 1 - li) + 1 + PassBound(Len(unresolved) - 1) + 1
    ELSE IF lpc = "built" THEN 1
    ELSE 0

\* every step of the loader takes the bound down, and until parse has returned there is a
\* step to take
LoadStepsDown == LoadRemaining' < LoadRemaining /\ LoadRemaining' >= 0
LoadCanStep ==
    \/ lpc = "first" /\ \E n \in tovisit : \A k \in KindsInProgress : doc[n].kind = k
    \/ lpc \in {"while", "built"}
    \/ lpc = "retry"

\* a retry pass that ends has a shorter queue than it started with, or aborts with
\* UnresolvedReferences
PassShrinksOrAborts ==
    (lpc = "retry" /\ lpc' # "retry") =>
        \/ lpc' = "while" /\ Len(unresolved') < Len(unresolved)
        \/ /\ lpc' = "built" /\ lret'.status = "UnresolvedReferences"
           /\ Len(unresolved1) = Len(unresolved)

\* every reference of the document is to a parameter type of the document
AllDefined ==
    \A n \in Named(doc) : \A i \in DOMAIN doc[n].members :
        doc[n].members[i] \in Named(doc) /\ doc[doc[n].members[i]].kind = "ParameterType"

RECURSIVE RefersWithin(_, _, _)
\* the entity n refers to the entity t through at most k references
RefersWithin(n, t, k) ==
    /\ k > 0
    /\ \E i \in DOMAIN doc[n].members :
          \/ doc[n].members[i] = t
          \/ RefersWithin(doc[n].members[i], t, k - 1)

\* no entity refers to itself, directly or through others
AcyclicRefs == \A n \in Named(doc) : ~RefersWithin(n, n, Cardinality(Named(doc)))

\* how many entities of the table have the name
CountNamed(table, n) == Cardinality({i \in DOMAIN table : table[i].name = n})

\* the entity is in the MDB exactly once, under its name in the space system
AddedOnce(n) ==
    IF doc[n].kind = "ParameterType"
    THEN /\ CountNamed(mdb.parameter_types, n) = 1
         /\ get_parameter_type_idx(mdb, DocSystem, n).some
    ELSE /\ CountNamed(mdb.parameters, n) = 1
         /\ get_parameter_idx(mdb, DocSystem, n).some

\* with every reference defined and no cycle, build_mdb ends with an empty queue and every
\* entity added once
EveryEntityAddedOnce ==
    (lpc \in {"built", "done"} /\ AllDefined /\ AcyclicRefs) =>
        /\ lret.status = "Ok"
        /\ unresolved = <<>>
        /\ \A n \in Named(doc) : AddedOnce(n)

\* the same for the parameter types alone
EveryTypeAddedOnce ==
    (lpc \in {"built", "done"} /\ AllDefined /\ AcyclicRefs) =>
        /\ lret.status = "Ok"
        /\ unresolved = <<>>
        /\ \A n \in Named(doc) : doc[n].kind = "ParameterType" => AddedOnce(n)

\* the parts of the claim that do not depend on the kind of the entities
FixpointTerminates ==
    /\ [][LoadStepsDown /\ PassShrinksOrAborts]_vars
    /\ [](lpc # "done" => LoadCanStep)
    /\ []EveryTypeAddedOnce

\* C14: the construction fixpoint of the loader always terminates: every retry pass
\* either strictly shrinks the queue of deferred entities or, with the queue length
\* unchanged, aborts with UnresolvedReferences; when every reference is defined and the
\* reference graph is acyclic, the loop ends with an empty queue and every named entity
\* added to the MDB exactly once, whatever the order of the first visits.
C14_LoaderFixpoint ==
    /\ [][LoadStepsDown /\ PassShrinksOrAborts]_vars
    /\ [](lpc # "done" => LoadCanStep)
    /\ []EveryEntityAddedOnce

-----------------------------------------------------------------------------
(* Claim C15: undefined and unresolved references *)

\* the error is the one the claim gives to the reference: UndefinedReference for a name
\* the name tree does not have, UnresolvedReference for one it has and the MDB has not
RightError(e) ==
    /\ e.error = "UndefinedReference" <=> ~e.in_tree
    /\ e.error = "UnresolvedReference" <=> (e.in_tree /\ ~e.in_mdb)

\* the error a step of the loader has raised
NewError == raised'[Len(raised')]

\* the entity whose constructor raised the error was pushed on the queue being filled
Queued(e) ==
    IF e.pass = "first"
    THEN unresolved' = Append(unresolved, [name |-> e.name, reference |-> e.reference])
    ELSE unresolved1' = Append(unresolved1, [name |-> e.name, reference |-> e.reference])

\* the load ended with the UndefinedReference
Fatal == lpc' = "built" /\ lret'.status = "UndefinedReference"

\* the same for the errors of the first pass alone
FirstPassErrors ==
    (raised' # raised /\ NewError.pass = "first") =>
        /\ RightError(NewError)
        /\ NewError.error = "UnresolvedReference" <=> Queued(NewError)
        /\ NewError.error = "UndefinedReference" => Fatal

FirstPassErrorsRight == [][FirstPassErrors]_vars

\* the error a constructor raises is the right one, queues the entity exactly when it is
\* an UnresolvedReference, and ends the load when it is an UndefinedReference
RaisedErrors ==
    raised' # raised =>
        /\ RightError(NewError)
        /\ NewError.error = "UnresolvedReference" <=> Queued(NewError)
        /\ NewError.error = "UndefinedReference" => Fatal

\* C15: a reference whose name is absent from the name tree is reported as
\* UndefinedReference and ends the load when a constructor raises it, in the first pass
\* and in every retry pass; only a reference whose name is in the name tree and whose
\* entity is not in the MDB yet is reported as UnresolvedReference, and it queues the
\* entity for a retry.
C15_UndefinedIsFatal == [][RaisedErrors]_vars

-----------------------------------------------------------------------------
(* Functions called on their own: the rest of the program holds nothing *)

OnlyCall ==
    /\ b = <<>> /\ position = 0 /\ byte_order = BigEndian /\ last = NoCall
    /\ result = NewPvList
    /\ sde = NoSde /\ sres = NoStr
    /\ NoProcess /\ NoInteger /\ calls = <<>> /\ NoTree /\ NoLoad

CallUnchanged ==
    UNCHANGED <<bbvars, result, strvars, procvars, intvars, mdbvars, treevars, loadvars>>

-----------------------------------------------------------------------------
(* QualifiedName::to_string and QualifiedName::from_str *)

RECURSIVE from_str_loop(_, _, _, _)
from_str_loop(name_db, parts, i, qn) ==
    IF i > Len(parts) THEN Some(qn)
    ELSE IF parts[i] = <<>> THEN from_str_loop(name_db, parts, i + 1, qn)
    ELSE IF parts[i] \in name_db THEN from_str_loop(name_db, parts, i + 1, Append(qn, parts[i]))
    ELSE None

\* QualifiedName::from_str: the parts between "/" that are not empty, each of them a name
\* of the name database
from_str(name_db, qnstr) == from_str_loop(name_db, Split(qnstr, "/"), 1, <<>>)

\* the longest qualified name of the pool
MaxQnLen == 3

\* MissionDatabase::new interns the empty name of the root space system
RootName == <<>>

\* the name databases of the pool: the name of the root and some of the other names
NameDbs == {{RootName} \cup names : names \in SUBSET {NameA, NameB, NameADotB}}

QnCalls ==
    UNION {[f : {"from_str"}, name_db : {db},
            qn : UNION {[1..n -> db] : n \in 0..MaxQnLen}] : db \in NameDbs}

InitQn ==
    /\ fcall \in QnCalls
    /\ fret = NotReturned
    /\ OnlyCall

\* to_string, and from_str of the string
RoundTrip ==
    /\ fcall.f = "from_str" /\ fret.status = "none"
    /\ fret' = [status |-> "returned", s |-> to_string(fcall.qn),
                v |-> from_str(fcall.name_db, to_string(fcall.qn))]
    /\ UNCHANGED fcall

NextQn == RoundTrip /\ CallUnchanged

SpecQn == InitQn /\ [][NextQn]_vars

-----------------------------------------------------------------------------
(* Claim C21: a qualified name comes back from its string *)

\* C21: for every QualifiedName QN of names interned in the NameDB, the empty name of the
\* root and the empty QN included, from_str(to_string(QN)) returns QN.
C21_QnRoundTrip ==
    (fcall.f = "from_str" /\ fret.status = "returned") => fret.v = Some(fcall.qn)

\* the same for the qualified names without the empty name
QnRoundTripNoEmptyName ==
    (/\ fcall.f = "from_str" /\ fret.status = "returned"
     /\ \A i \in DOMAIN fcall.qn : fcall.qn[i] # RootName) =>
        fret.v = Some(fcall.qn)

-----------------------------------------------------------------------------
(* BitBuffer::slice. A slice borrows the buffer it was taken from, so only the innermost
   slice can be read or moved while it is there. *)

\* a BitBuffer, with the place of its first bit in the buffer that was wrapped
BitBuffer(buf, pos, order, origin) ==
    [b |-> buf, position |-> pos, byte_order |-> order, origin |-> origin]

\* slice() that keeps the cursor of the buffer it is taken from
slice_keeps_position(bb) ==
    IF bb.position % 8 # 0 \/ bb.position \div 8 > Len(bb.b)
    THEN [status |-> "panic"]
    ELSE [status |-> "ok",
          bb |-> BitBuffer(SubSeq(bb.b, bb.position \div 8 + 1, Len(bb.b)), bb.position,
                           bb.byte_order, bb.origin + bb.position)]

\* BitBuffer::slice: panics off a byte boundary (and past the end of the bytes), else a
\* buffer over the bytes from the current one on, with its cursor at 0
slice(bb) ==
    IF bb.position % 8 # 0 \/ bb.position \div 8 > Len(bb.b)
    THEN [status |-> "panic"]
    ELSE [status |-> "ok",
          bb |-> BitBuffer(SubSeq(bb.b, bb.position \div 8 + 1, Len(bb.b)), 0,
                           bb.byte_order, bb.origin + bb.position)]

\* the buffers of test_double_slice and of test_bigendian, and a longer one
SliceBuffers == {<<1, 2, 3, 4>>, TestBE, <<165, 60, 150, 1, 254, 90>>}

\* a slice, and a slice of the slice
SliceDepths == {1, 2}

\* the numbers of bits read from a slice
SliceReads == {1, 3, 8, 12, 17, 32, 33, 64}

NoRead == [d |-> 0, start |-> 0, n |-> 0, status |-> "none", value |-> Zero64]

InitSlice ==
    /\ b \in SliceBuffers
    /\ position \in 0..(bitsize(b) + 8)
    /\ byte_order \in ByteOrder
    /\ last = NoCall
    /\ fcall = [f |-> "slice"]
    /\ fret = [status |-> "ok", bufs |-> <<>>, rd |-> NoRead]
    /\ result = NewPvList
    /\ sde = NoSde /\ sres = NoStr
    /\ NoProcess /\ NoInteger /\ calls = <<>> /\ NoTree /\ NoLoad

\* the innermost buffer: the last slice taken, or the wrapped buffer
Innermost ==
    IF fret.bufs = <<>> THEN BitBuffer(b, position, byte_order, 0)
    ELSE fret.bufs[Len(fret.bufs)]

\* slice() returned r
Sliced(r) ==
    fret' = IF r.status = "panic" THEN [fret EXCEPT !.status = "panic"]
            ELSE [fret EXCEPT !.bufs = Append(@, r.bb), !.rd = NoRead]

\* one call of slice() on the innermost buffer
Slice ==
    /\ fcall.f = "slice" /\ fret.status = "ok"
    /\ Len(fret.bufs) + 1 \in SliceDepths
    /\ Sliced(slice(Innermost))

\* get_bits on the innermost slice returned r
SliceRead(d, n, r) ==
    fret' = [fret EXCEPT !.bufs[d].position = r.position,
                         !.status = IF r.status = "panic" THEN "panic" ELSE "ok",
                         !.rd = [d |-> d, start |-> fret.bufs[d].position, n |-> n,
                                 status |-> r.status, value |-> r.value]]

\* one call of get_bits on the innermost slice
ReadSlice(n) ==
    /\ fcall.f = "slice" /\ fret.status = "ok" /\ fret.bufs # <<>>
    /\ SliceRead(Len(fret.bufs), n,
                 get_bits(Innermost.b, Innermost.position, Innermost.byte_order, n))

\* one call of set_position on the innermost slice
MoveSlice(p) ==
    /\ fcall.f = "slice" /\ fret.status = "ok" /\ fret.bufs # <<>>
    /\ p <= bitsize(Innermost.b)
    /\ fret' = [fret EXCEPT !.bufs[Len(fret.bufs)].position = p, !.rd = NoRead]

SliceUnchanged ==
    UNCHANGED <<bbvars, result, strvars, procvars, intvars, mdbvars, treevars, loadvars, fcall>>

NextSlice ==
    \/ Slice /\ SliceUnchanged
    \/ \E n \in SliceReads : ReadSlice(n) /\ SliceUnchanged
    \/ \E p \in 0..(MaxBufLen * 8) : MoveSlice(p) /\ SliceUnchanged

SpecSlice == InitSlice /\ [][NextSlice]_vars

-----------------------------------------------------------------------------
(* Claim C22: a slice reads what the buffer it was taken from has there *)

\* the buffer the d-th slice was taken from
SliceParent(d) == IF d = 1 THEN BitBuffer(b, position, byte_order, 0) ELSE fret.bufs[d - 1]

\* the read of the slice gave what the buffer bb gives at the place p
SameRead(rd, bb, p) ==
    /\ rd.status = get_bits(bb.b, p, bb.byte_order, rd.n).status
    /\ rd.status = "ok" => rd.value = get_bits(bb.b, p, bb.byte_order, rd.n).value

\* a slice is taken at a byte boundary of its parent, whose cursor is still there
TakenAt(d) ==
    /\ SliceParent(d).position % 8 = 0
    /\ fret.bufs[d].origin = SliceParent(d).origin + SliceParent(d).position

\* a read of a slice gives what its parent, and the wrapped buffer, give at the same place
ReadAsParent ==
    fret.rd.status # "none" =>
        /\ SameRead(fret.rd, SliceParent(fret.rd.d),
                    SliceParent(fret.rd.d).position + fret.rd.start)
        /\ SameRead(fret.rd, BitBuffer(b, position, byte_order, 0),
                    fret.bufs[fret.rd.d].origin + fret.rd.start)

\* a slice just taken has its cursor at 0, and slice() panics off a byte boundary
SliceStep ==
    /\ (fret'.status = "ok" /\ Len(fret'.bufs) > Len(fret.bufs)) =>
          /\ Innermost.position % 8 = 0
          /\ fret'.bufs[Len(fret'.bufs)].position = 0
    /\ (Innermost.position % 8 # 0 /\ Len(fret.bufs) + 1 \in SliceDepths /\ fret.status = "ok") =>
          (fret'.rd # fret.rd \/ fret'.bufs # fret.bufs \/ fret'.status = "panic")
    /\ (Innermost.position % 8 # 0) => Len(fret'.bufs) <= Len(fret.bufs)

\* C22: slice() at a byte-aligned position p returns a buffer whose cursor starts at 0 and
\* whose read at q returns what the parent returns at p + q; reading from the slice, or from
\* a slice of the slice, never changes the parent's cursor; slice() at a position that is
\* not byte-aligned fails.
C22_SliceReads ==
    /\ [](\A d \in DOMAIN fret.bufs : TakenAt(d))
    /\ []ReadAsParent
    /\ [][SliceStep]_vars

\* test_double_slice: the slice of the slice taken after one byte each read 03
C22_Witness ==
    /\ b = <<1, 2, 3, 4>> /\ position = 8 /\ Len(fret.bufs) = 2
    /\ fret.bufs[1].position = 8
    /\ fret.rd.d = 2 /\ fret.rd.n = 8 /\ fret.rd.start = 0 /\ fret.rd.status = "ok"
    /\ U64ToNat(fret.rd.value) = 3

-----------------------------------------------------------------------------
(* ParameterValueList: the pushes made are kept in fcall next to the list they built *)

\* ParameterValueList::len
len(pvl) == Len(pvl.entries)

\* the values that "for pv in pvlist" and "for pv in &pvlist" yield, in their order
into_iter(pvl) == [i \in DOMAIN pvl.entries |-> pvl.entries[i].pv]

\* the longest list of pushes
MaxPushes == 4

\* the parameters pushed, and one that may never be
PvParams == 0..2

\* the values pushed
PvValues == {[pidx |-> p, raw_value |-> Uint64(NatToU64(v))] : p \in 0..1, v \in {7, 24}}

InitPv ==
    /\ fcall = [f |-> "push", pushed |-> <<>>]
    /\ fret = NotReturned
    /\ OnlyCall

\* the whole of push(pv)
Push(pv) ==
    /\ fcall.f = "push"
    /\ Len(fcall.pushed) < MaxPushes
    /\ result' = push(result, pv)
    /\ fcall' = [fcall EXCEPT !.pushed = Append(@, pv)]
    /\ UNCHANGED <<bbvars, strvars, procvars, intvars, mdbvars, treevars, loadvars, fret>>

NextPv == \E pv \in PvValues : Push(pv)

SpecPv == InitPv /\ [][NextPv]_vars

-----------------------------------------------------------------------------
(* Claim C23: the list answers from the pushes made *)

\* the places in the pushes made of the values of the parameter
PushesOf(pidx) == {i \in DOMAIN fcall.pushed : fcall.pushed[i].pidx = pidx}

\* the most recent push of the parameter, if there is one
MostRecent(pidx) ==
    IF PushesOf(pidx) = {} THEN None
    ELSE Some(fcall.pushed[CHOOSE i \in PushesOf(pidx) : \A j \in PushesOf(pidx) : j <= i])

\* C23: after any sequence of push calls, last_inserted(p) returns the value of the most
\* recent push whose pidx is p and nothing if there was none, len() is the number of pushes
\* made, and iteration yields the values in push order.
C23_PvList ==
    fcall.f = "push" =>
        /\ \A p \in PvParams : last_inserted(result, p) = MostRecent(p)
        /\ len(result) = Len(fcall.pushed)
        /\ into_iter(result) = fcall.pushed

\* parameter 0 pushed twice with parameter 1 in between, parameter 2 never
C23_Witness ==
    /\ fcall.f = "push" /\ Len(fcall.pushed) = 3
    /\ fcall.pushed[1].pidx = 0 /\ fcall.pushed[2].pidx = 1 /\ fcall.pushed[3].pidx = 0
    /\ fcall.pushed[1] # fcall.pushed[3]
    /\ last_inserted(result, 0) = Some(fcall.pushed[3])
    /\ last_inserted(result, 2) = None

-----------------------------------------------------------------------------
(* calibrate (proc/types.rs) for a data type without calibrator whose type data is an
   integer type *)

I64Max == Ones64(63)
I64Min == Not64(Ones64(63))

\* rv as i64 for an f64: 0 for NaN, the nearer end of i64 out of range, else the value
\* truncated towards zero
f64_as_i64(d) ==
    IF d.nan THEN Zero64
    ELSE IF d.over > 0 \/ Lt64(I64Max, d.mag) THEN (IF d.neg THEN I64Min ELSE I64Max)
    ELSE IF d.neg THEN Neg64(d.mag) ELSE d.mag

\* rv as u64 for an f64: 0 for NaN and below 0, u64::MAX from 2^64 on
f64_as_u64(d) ==
    IF d.nan \/ d.neg THEN Zero64
    ELSE IF d.over > 0 THEN [i \in 1..8 |-> 255] ELSE d.mag

\* from_signed_integer, TypeData::Integer
from_signed_integer(v, idt) ==
    IF idt.signed THEN int_value(idt.size_in_bits, v)
    ELSE uint_value(idt.size_in_bits, IF Negative(v) THEN Zero64 ELSE v)

\* from_unsigned_integer, TypeData::Integer: uint_value for the signed types as well
from_unsigned_integer(rv, idt) ==
    IF idt.signed
    THEN IF Lt64(I64Max, rv) THEN uint_value(idt.size_in_bits, I64Max)
         ELSE uint_value(idt.size_in_bits, rv)
    ELSE uint_value(idt.size_in_bits, rv)

\* from_double, TypeData::Integer
from_double(rv, idt) ==
    IF idt.signed THEN int_value(idt.size_in_bits, f64_as_i64(rv))
    ELSE uint_value(idt.size_in_bits, f64_as_u64(rv))

\* types::calibrate for the raw values that are numbers and an integer type
calibrate_to_integer(rawv, idt) ==
    IF rawv.t = "Int64" THEN from_signed_integer(rawv.v, idt)
    ELSE IF rawv.t = "Uint64" THEN from_unsigned_integer(rawv.v, idt)
    ELSE from_double(rawv.d, idt)

\* NaN, the infinities, 2^64, and 2^k, 2^k - 1 of either sign; "as i64" drops the fraction
\* of an f64, so that the doubles without fraction stand for all
Doubles ==
    {Double(TRUE, FALSE, 0, Zero64)}
    \cup {Double(FALSE, neg, over, Zero64) : neg \in BOOLEAN, over \in {1, 2}}
    \cup {Double(FALSE, neg, 0, mag) : neg \in BOOLEAN, mag \in SizingInputs}

RawNumbers ==
    {Int64(x) : x \in SizingInputs} \cup {Uint64(x) : x \in SizingInputs} \cup Doubles

IntegerDataTypes == [size_in_bits : 1..64, signed : BOOLEAN]

InitCal ==
    /\ fcall \in [f : {"calibrate"}, rawv : RawNumbers, idt : IntegerDataTypes]
    /\ fret = NotReturned
    /\ OnlyCall

\* one call of calibrate
Calibrate ==
    /\ fcall.f = "calibrate" /\ fret.status = "none"
    /\ fret' = [status |-> "returned", v |-> calibrate_to_integer(fcall.rawv, fcall.idt)]
    /\ UNCHANGED fcall

NextCal == Calibrate /\ CallUnchanged

SpecCal == InitCal /\ [][NextCal]_vars

-----------------------------------------------------------------------------
(* Claim C24: the engineering value of a signed integer type lies in the range of its width *)

\* the value lies in [-2^(n-1), 2^(n-1)-1]
InSignedRange(n, v) ==
    IF v.t = "Int64" THEN SignedInRange(n, v.v)
    ELSE v.t = "Uint64" /\ UnsignedInRange(n - 1, v.v)

CalibratedSigned == fcall.f = "calibrate" /\ fret.status = "returned" /\ fcall.idt.signed

\* C24: without a calibrator, calibrating any raw value (signed, unsigned or double) to a
\* signed integer type of declared width n yields an engineering value within
\* [-2^(n-1), 2^(n-1)-1]; in particular an unsigned raw value greater than 2^(n-1)-1 is
\* saturated to 2^(n-1)-1.
C24_CalibratedInRange ==
    CalibratedSigned =>
        /\ InSignedRange(fcall.idt.size_in_bits, fret.v)
        /\ (fcall.rawv.t = "Uint64" /\ ~UnsignedInRange(fcall.idt.size_in_bits - 1, fcall.rawv.v))
              => IsSignedMax(fcall.idt.size_in_bits, fret.v.v)

\* what holds: a signed or double raw value gives an Int64 in the range, and an unsigned
\* raw value a Uint64 in [0, 2^n-1], or in [0, 2^63-1] for 64 bits
CalibratedAsCoded ==
    CalibratedSigned =>
        IF fcall.rawv.t = "Uint64"
        THEN /\ fret.v.t = "Uint64"
             /\ UnsignedInRange(IF fcall.idt.size_in_bits = 64 THEN 63
                                ELSE fcall.idt.size_in_bits, fret.v.v)
        ELSE /\ fret.v.t = "Int64"
             /\ SignedInRange(fcall.idt.size_in_bits, fret.v.v)

-----------------------------------------------------------------------------
(* The comparison of a parameter value with a compiled literal: compare_equal for the
   Equality operator and compare for the others, as the two evaluators call them *)

ComparisonOperator ==
    {"Equality", "Inequality", "LargerThan", "LargerOrEqualThan", "SmallerThan",
     "SmallerOrEqualThan"}

\* 2^53 + 1 and 2^64 - 1023, which no f64 is
Pow53Plus1 == <<0, 32, 0, 0, 0, 0, 0, 1>>
NearU64Max == <<255, 255, 255, 255, 255, 255, 252, 1>>

ComparedInt64 == {Int64(x) : x \in {Zero64, U64FromU8(1), Not64(Zero64), I64Min, I64Max,
                                     Pow53Plus1}}
ComparedUint64 == {Uint64(x) : x \in {Zero64, U64FromU8(1), I64Min, I64Max, Not64(Zero64),
                                       Pow53Plus1, NearU64Max}}
ComparedDouble ==
    {Double(TRUE, FALSE, 0, Zero64)}
    \cup {Double(FALSE, neg, 0, mag) : neg \in BOOLEAN,
                                       mag \in {Zero64, U64FromU8(1), I64Min,
                                                <<0, 32, 0, 0, 0, 0, 0, 0>>}}
    \cup {Double(FALSE, neg, over, Zero64) : neg \in BOOLEAN, over \in {1, 2}}

\* the strings "", "a", "ab" and "b" as their bytes
ComparedStrings == {<<>>, <<97>>, <<97, 98>>, <<98>>}

ComparedValues ==
    ComparedInt64 \cup ComparedUint64 \cup ComparedDouble
    \cup {Boolean(v) : v \in BOOLEAN}
    \cup {StringValue(v) : v \in ComparedStrings}
    \cup {Enumerated(U64FromU8(k), v) : k \in {0, 1}, v \in {<<97>>, <<98>>}}
    \cup {Binary(v) : v \in {<<>>, <<97>>}}

InitCmp ==
    /\ fcall \in [f : {"compare"}, operator : ComparisonOperator, x : ComparedValues,
                  y : ComparedValues]
    /\ fret = NotReturned
    /\ OnlyCall

\* one evaluation of a RefEqualValueEvaluator or of a RefValueEvaluator whose parameter has
\* the value x
Compare ==
    /\ fcall.f = "compare" /\ fret.status = "none"
    /\ fret' = [status |-> "returned",
                v |-> IF fcall.operator = "Equality" THEN compare_equal(fcall.x, fcall.y)
                      ELSE compare(fcall.operator, fcall.x, fcall.y)]
    /\ UNCHANGED fcall

NextCmp == Compare /\ CallUnchanged

SpecCmp == InitCmp /\ [][NextCmp]_vars

-----------------------------------------------------------------------------
(* Claim C25: what a comparison returns for two values of the same or of different kinds *)

MatchResult == {OK, NOK, UNDEF, ERROR}

\* x < y for two integers, from their signs
IntLt(x, y) ==
    IF x.t = "Int64" /\ Negative(x.v) THEN ~(y.t = "Int64" /\ Negative(y.v)) \/ Lt64(x.v, y.v)
    ELSE ~(y.t = "Int64" /\ Negative(y.v)) /\ Lt64(x.v, y.v)

\* the operator holds of two things of which lt and eq say how they compare
Holds(operator, lt, eq) ==
    CASE operator = "Equality" -> eq
      [] operator = "Inequality" -> ~eq
      [] operator = "LargerThan" -> ~lt /\ ~eq
      [] operator = "LargerOrEqualThan" -> ~lt
      [] operator = "SmallerThan" -> lt
      [] operator = "SmallerOrEqualThan" -> lt \/ eq

Matches(h) == IF h THEN OK ELSE NOK

\* the pairs that are compared: of one kind that has an order, two integers, a string and
\* an enumerated value
Comparable(operator, x, y) ==
    \/ x.t = y.t /\ (operator = "Equality" \/ x.t \in {"Int64", "Uint64", "StringValue"})
    \/ x.t \in IntegerKinds /\ y.t \in IntegerKinds
    \/ {x.t, y.t} = {"StringValue", "Enumerated"}

\* the string of a string and the label of an enumerated value
Text(x) == IF x.t = "Enumerated" THEN x.value ELSE x.v

\* the result that direct comparison gives for a comparable pair
Direct(operator, x, y) ==
    IF x.t \in IntegerKinds /\ y.t \in IntegerKinds
    THEN Matches(Holds(operator, IntLt(x, y), ~IntLt(x, y) /\ ~IntLt(y, x)))
    ELSE IF x.t \in {"StringValue", "Enumerated"} /\ (x.t # y.t \/ x.t = "StringValue")
    THEN Matches(Holds(operator, LexLt(Text(x), Text(y)), Text(x) = Text(y)))
    ELSE Matches(x = y)

Compared == fcall.f = "compare" /\ fret.status = "returned"

\* C25: for every comparison operator and every pair (parameter value, compiled literal):
\* values of the same kind are compared directly, a signed with an unsigned integer is
\* compared as 128-bit signed integers, a string with an enumerated value compares the
\* string with the label, and every other cross-kind pair (and any pair the operator cannot
\* order) yields ERROR; the evaluation always returns a MatchResult and never aborts.
C25_CompareTotal ==
    Compared =>
        /\ fret.v \in MatchResult
        /\ fret.v = IF Comparable(fcall.operator, fcall.x, fcall.y)
                    THEN Direct(fcall.operator, fcall.x, fcall.y)
                    ELSE ERROR

\* what holds: two integers, and a string with an enumerated value, are compared as
\* claimed, and so are two values of one kind for Equality (two doubles as f64); no
\* evaluation returns ERROR
ComparedAsCoded ==
    Compared =>
        /\ fret.v # ERROR
        /\ ((fcall.x.t \in IntegerKinds /\ fcall.y.t \in IntegerKinds)
            \/ {fcall.x.t, fcall.y.t} = {"StringValue", "Enumerated"}
            \/ (fcall.operator = "Equality" /\ fcall.x.t = fcall.y.t /\ fcall.x.t # "Double"))
              => fret.v = Direct(fcall.operator, fcall.x, fcall.y)

\* the pairs where the evaluation stops at todo!(): a pair that is neither two numbers nor a
\* string with an enumerated value, unless it is of one kind under Equality
AbortsAtTodo ==
    Compared =>
        (fret.v = PANIC <=>
            /\ ~(fcall.x.t \in NumberKinds /\ fcall.y.t \in NumberKinds)
            /\ {fcall.x.t, fcall.y.t} # {"StringValue", "Enumerated"}
            /\ ~(fcall.operator = "Equality" /\ fcall.x.t = fcall.y.t))

-----------------------------------------------------------------------------
(* Claim C26: a "." in a component that is not the last of a parameter reference *)

\* a name: a component that is neither empty nor "." nor ".."
IsName(p) == p # <<>> /\ p # <<".">> /\ p # <<".", ".">>

\* the places of the components that are names with a "." in them, followed by names only
DottedEarlier(comps) ==
    {i \in 1..(Len(comps) - 1) :
        /\ IsName(comps[i]) /\ Find(comps[i], ".") > 0
        /\ \A j \in (i + 1)..Len(comps) : IsName(comps[j]) /\ Find(comps[j], ".") = 0}

RECURSIVE JoinWith(_, _, _)
\* the components from the i-th on with sep between them
JoinWith(comps, i, sep) ==
    IF i > Len(comps) THEN <<>>
    ELSE IF i = Len(comps) THEN comps[i]
    ELSE comps[i] \o <<sep>> \o JoinWith(comps, i + 1, sep)

\* the reference with "." for "/" after its i-th component: b/para3.x/y as b/para3.x.y
DotForm(comps, i) ==
    JoinWith(SubSeq(comps, 1, i - 1) \o <<JoinWith(comps, i, ".")>>, 1, "/")

\* the request is a parameter reference with a "." in a component before the last
EarlierDot ==
    /\ resolved.status = "resolved" /\ req.rtype = "Parameter"
    /\ DottedEarlier(Split(req.reference, "/")) # {}

\* C26: when resolving a Parameter reference, a component containing "." that fails to
\* match a space system is split at its first "." whether it is the final component or an
\* earlier one; so b/para3.x/y resolves to para3 in b with member path [x, y], exactly as
\* b/para3.x.y does.
C26_EarlierDotSplit ==
    EarlierDot =>
        \A i \in DottedEarlier(Split(req.reference, "/")) :
            resolved.r = resolve_ref(name_tree, DotForm(Split(req.reference, "/"), i),
                                     req.relative_to, req.rtype)

\* what holds: with the "." in a component before the last, the reference resolves only
\* with the whole component, "." included, as the name of the parameter or of a member
EarlierDotTakenWhole ==
    EarlierDot =>
        (resolved.r.some =>
            \E i \in DottedEarlier(Split(req.reference, "/")) :
                \/ resolved.r.v.name = Split(req.reference, "/")[i]
                \/ /\ resolved.r.v.member_path.some
                   /\ \E k \in DOMAIN resolved.r.v.member_path.v :
                         resolved.r.v.member_path.v[k] = Split(req.reference, "/")[i])

-----------------------------------------------------------------------------
(* types::extract applied to integer, float, string and aggregate types at every cursor
   of a small set of packets *)

FloatType(bits, order, encoding) ==
    [type_data |-> [kind |-> "Float"],
     encoding |-> [kind |-> "Float", size_in_bits |-> bits, byte_order |-> order,
                   encoding |-> encoding]]

Member(name, dtype) == [name |-> name, dtype |-> dtype]

AggregateType(members) ==
    [type_data |-> [kind |-> "Aggregate", members |-> members], encoding |-> [kind |-> "None"]]

\* two integers, one of them not a whole number of bytes
PairType ==
    AggregateType(<<Member("x", IntegerType(8, BigEndian)),
                    Member("y", IntegerType(12, LittleEndian))>>)

ExtractedTypes ==
    {IntegerType(8, BigEndian), IntegerType(12, LittleEndian), IntegerType(64, BigEndian),
     FloatType(32, BigEndian, "IEEE754_1985"), FloatType(64, LittleEndian, "IEEE754_1985"),
     FloatType(16, BigEndian, "Milstd1750a"),
     TerminatedStringType,
     AggregateType(<<>>),
     PairType,
     AggregateType(<<Member("s", TerminatedStringType),
                     Member("f", FloatType(32, BigEndian, "IEEE754_1985"))>>),
     AggregateType(<<Member("p", PairType), Member("z", IntegerType(4, BigEndian)),
                     Member("q", PairType)>>)}

\* the test buffers and a packet with a terminated string in it
ExtractedBuffers == Buffers \cup {<<97, 98, 0, 24, 122, 35, 255, 1, 2>>}

InitExt ==
    /\ b \in ExtractedBuffers
    /\ position \in 0..bitsize(b)
    /\ byte_order = BigEndian
    /\ last = NoCall
    /\ fcall \in [f : {"extract"}, ptype : ExtractedTypes, chk : BOOLEAN]
    /\ fret = NotReturned
    /\ result = NewPvList
    /\ sde = NoSde /\ sres = NoStr
    /\ NoProcess /\ NoInteger /\ calls = <<>> /\ NoTree /\ NoLoad

\* types::extract returned r
TypeExtracted(r) ==
    /\ fret' = [status |-> "returned", before |-> position, r |-> r]
    /\ position' = r.position
    /\ byte_order' = r.byte_order

\* one call of types::extract
ExtractType ==
    /\ fcall.f = "extract" /\ fret.status = "none"
    /\ TypeExtracted(extract(fcall.ptype, b, position, byte_order, result, fcall.chk))
    /\ UNCHANGED <<b, last, result, strvars, procvars, intvars, mdbvars, treevars, loadvars,
                   fcall>>

NextExt == ExtractType

SpecExt == InitExt /\ [][NextExt]_vars

-----------------------------------------------------------------------------
(* Claim C27: the position recorded with an extracted value *)

\* the position says that the value began at the cursor start and how many bits it took
Placed(cpos, start, end) ==
    /\ cpos.bit_offset = start
    /\ cpos.bit_size = end - start
    /\ cpos.bit_offset + cpos.bit_size = end

RECURSIVE PlacedIn(_, _, _)
RECURSIVE MembersPlaced(_, _, _, _)

\* the members from the k-th on have their positions in the details, one after the other
\* from the cursor start on
MembersPlaced(members, k, posm, start) ==
    k <= Len(members) =>
        /\ members[k].name \in DOMAIN posm
        /\ PlacedIn(members[k].dtype, posm[members[k].name], start)
        /\ MembersPlaced(members, k + 1, posm, start + posm[members[k].name].bit_size)

\* the position of a value of the type that began at the cursor start is right, and so are
\* those of its members
PlacedIn(dtype, cpos, start) ==
    /\ cpos.bit_offset = start
    /\ dtype.type_data.kind = "Aggregate" =>
          /\ cpos.details.kind = "Aggregate"
          /\ DOMAIN cpos.details.posm = {dtype.type_data.members[k].name :
                                            k \in DOMAIN dtype.type_data.members}
          /\ MembersPlaced(dtype.type_data.members, 1, cpos.details.posm, start)

ExtractedOk == fcall.f = "extract" /\ fret.status = "returned" /\ fret.r.status = "ok"

\* C27: for every extracted value (integer, float, string, aggregate) the ContainerPosition
\* returned with it has bit_offset equal to the cursor before the extraction and bit_size
\* equal to the bits consumed, so bit_offset + bit_size is the cursor after; for an
\* aggregate, details holds one position per member with the same property.
C27_ContainerPosition ==
    ExtractedOk =>
        /\ Placed(ContainerPosition(fret.r), fret.before, position)
        /\ PlacedIn(fcall.ptype, ContainerPosition(fret.r), fret.before)

\* what holds: bit_size is the bits consumed; the bit_offset of an integer, float or string
\* is the cursor before, and that of an aggregate, at every depth, the cursor after
PositionAsCoded ==
    ExtractedOk =>
        /\ fret.r.bit_size = position - fret.before
        /\ fret.r.bit_offset = IF fcall.ptype.type_data.kind = "Aggregate" THEN position
                               ELSE fret.before
        /\ fcall.ptype.type_data.kind = "Aggregate" =>
              \A k \in DOMAIN fcall.ptype.type_data.members :
                 LET m == fcall.ptype.type_data.members[k]
                     p == fret.r.details.posm[m.name]
                 IN  m.dtype.type_data.kind = "Aggregate" => p.bit_offset >= fret.before + p.bit_size

-----------------------------------------------------------------------------
(* The loader on a document that has a ContainerSet beside its parameters and types.
   build_tm_name_tree skips the ContainerSet, so the loader never reads it; it is kept
   in fcall. *)

ContainerNames == {NameA, NameB}

\* what the ContainerSet has under a name: nothing, or a SequenceContainer with or without
\* a BaseContainer and its containerRef
ContainerDecls ==
    {[declared |-> FALSE, base |-> None]}
    \cup {[declared |-> TRUE, base |-> x] : x \in {None} \cup {Some(n) : n \in ContainerNames}}

ContainerSets == [ContainerNames -> ContainerDecls]

InitDoc ==
    /\ LoaderStarts
    /\ fcall \in [f : {"parse"}, containers : ContainerSets]
    /\ fret = NotReturned

SpecDoc == InitDoc /\ [][NextLoad]_vars

-----------------------------------------------------------------------------
(* Claim C28: the base of a container comes before it *)

RECURSIVE BaseWithin(_, _, _, _)
\* the container n declared in cs has the container t as its base through at most k steps
BaseWithin(cs, n, t, k) ==
    /\ k > 0
    /\ cs[n].declared /\ cs[n].base.some
    /\ cs[n].base.v = t \/ BaseWithin(cs, cs[n].base.v, t, k - 1)

\* the containers declared with cyclic inheritance
Cyclic(cs) == {n \in DOMAIN cs : BaseWithin(cs, n, n, Cardinality(DOMAIN cs))}

\* the base of every container of the MDB has a smaller index than the container
BaseBelow ==
    \A i \in DOMAIN mdb.containers :
        mdb.containers[i].base_container.some => mdb.containers[i].base_container.c < i

\* the loader has ended on a document whose only fault is a cycle of inheritance
CyclicLoaded ==
    /\ fcall.f = "parse" /\ lpc \in {"built", "done"}
    /\ AllDefined /\ AcyclicRefs
    /\ Cyclic(fcall.containers) # {}

\* C28: in every MDB produced by the loader, the base_container index of a container is
\* smaller than the container's own index, so the base relation is acyclic; containers
\* declared with cyclic inheritance are never added and the load ends with
\* UnresolvedReferences.
C28_BaseBeforeContainer ==
    /\ BaseBelow
    /\ CyclicLoaded =>
          /\ \A n \in Cyclic(fcall.containers) : ~get_container_idx(mdb, DocSystem, n).some
          /\ lret.status = "UnresolvedReferences"

\* what holds: the loader adds no container at all, and on a document whose only fault is
\* a cycle of inheritance build_mdb returns Ok
NoContainerLoaded ==
    fcall.f = "parse" =>
        /\ mdb.containers = <<>>
        /\ CyclicLoaded => lret.status = "Ok"

-----------------------------------------------------------------------------
(* The constructor of a SequenceContainer (parser/containers.rs, parser/misc.rs).
   An element of the document is a record of its tag, its attributes and its children. *)

\* MissionDatabase::add_match_criteria: the criteria gets the next index
add_match_criteria(m, mc) == [m EXCEPT !.match_criteria = Append(@, mc)]

\* a result of the parser: Ok with a value, or an error with the reference it is about
ParsedOk(m, v) == [status |-> "Ok", reference |-> <<>>, mdb |-> m, v |-> v]
ParseErr(m, status, name) == [status |-> status, reference |-> name, mdb |-> m, v |-> 0]

\* misc.rs resolve_ref and resolve_para_ref once the name tree has answered rr
resolved_index(m, rr, name, rtype) ==
    IF ~rr.some THEN ParseErr(m, "UndefinedReference", name)
    ELSE IF ~IndexOf(m, rr.v, rtype).some THEN ParseErr(m, "UnresolvedReference", name)
    ELSE ParsedOk(m, [idx |-> IndexOf(m, rr.v, rtype).v, aggr_path |-> rr.v.member_path])

\* misc.rs resolve_ref, and resolve_para_ref for a Parameter
resolve_index(m, tree, path, name, rtype) ==
    resolved_index(m, resolve_ref(tree, name, path, rtype), name, rtype)

\* read_comparison once its parameter reference has been resolved as p
ComparisonResolved(m, node, p) ==
    IF p.status # "Ok" THEN p
    ELSE ParsedOk(m, Comparison(p.v.idx, node.comparisonOperator, node.value))

\* read_comparison: the parameter of the Comparison element is resolved first
read_comparison(m, tree, path, node) ==
    ComparisonResolved(m, node, resolve_index(m, tree, path, node.parameterRef, "Parameter"))

\* read_match_criteria once the Comparison has been read as c: the criteria is added to the
\* MDB and its index returned
MatchCriteriaRead(m, c) ==
    IF c.status # "Ok" THEN c
    ELSE ParsedOk(add_match_criteria(m, [kind |-> "Comparison", list |-> <<c.v>>]),
                  Len(m.match_criteria) + 1)

\* read_match_criteria for an element whose child is a Comparison
read_match_criteria(m, tree, path, node) ==
    MatchCriteriaRead(m, read_comparison(m, tree, path, node))

\* the IncludeCondition arm of read_common_entry_elements after read_match_criteria
IncludeConditionRead(entry, mc) ==
    IF mc.status # "Ok" THEN mc
    ELSE ParsedOk(mc.mdb, [entry EXCEPT !.include_condition = mc.v])

\* read_common_entry_elements: the IncludeCondition of the entry, if it has one
read_common_entry_elements(m, tree, path, node, entry) ==
    IF ~node.include.some THEN ParsedOk(m, entry)
    ELSE IncludeConditionRead(entry, read_match_criteria(m, tree, path, node.include.v))

\* read_para_entry once its parameter reference has been resolved as p
ParaEntryResolved(m, tree, path, node, p) ==
    IF p.status # "Ok" THEN p
    ELSE IF p.v.aggr_path.some THEN ParseErr(m, "InvalidReference", node.parameterRef)
    ELSE read_common_entry_elements(m, tree, path, node,
                                    ParameterRefEntry(NoLoc, NoIdx, p.v.idx))

\* read_para_entry
read_para_entry(m, tree, path, node) ==
    ParaEntryResolved(m, tree, path, node,
                      resolve_index(m, tree, path, node.parameterRef, "Parameter"))

RECURSIVE read_entry_list(_, _, _, _, _, _)
\* the loop of read_entry_list after the i-th entry was read as e
EntryRead(tree, path, nodes, i, list, e) ==
    IF e.status # "Ok" THEN e
    ELSE read_entry_list(e.mdb, tree, path, nodes, i + 1, Append(list, e.v))

\* read_entry_list: the ParameterRefEntry elements from the i-th on are pushed on the list
read_entry_list(m, tree, path, nodes, i, list) ==
    IF i > Len(nodes) THEN ParsedOk(m, list)
    ELSE EntryRead(tree, path, nodes, i, list, read_para_entry(m, tree, path, nodes[i]))

\* the RestrictionCriteria of read_base_container after read_match_criteria
RestrictionRead(c, mc) ==
    IF mc.status # "Ok" THEN mc
    ELSE ParsedOk(mc.mdb, Base(c.v.idx, mc.v))

\* read_base_container once the container reference has been resolved as c
BaseResolved(m, tree, path, node, c) ==
    IF c.status # "Ok" THEN c
    ELSE IF ~node.restriction.some THEN ParsedOk(m, Base(c.v.idx, NoIdx))
    ELSE RestrictionRead(c, read_match_criteria(m, tree, path, node.restriction.v))

\* read_base_container: the container referred to, then the RestrictionCriteria
read_base_container(m, tree, path, node) ==
    BaseResolved(m, tree, path, node,
                 resolve_index(m, tree, path, node.containerRef, "SequenceContainer"))

RECURSIVE read_container_children(_, _, _, _, _, _, _, _)
\* the EntryList arm of the loop after read_entry_list returned r
EntryListRead(tree, path, name, nodes, i, base_container, r) ==
    IF r.status # "Ok" THEN r
    ELSE read_container_children(r.mdb, tree, path, name, nodes, i + 1, r.v, base_container)

\* the BaseContainer arm of the loop after read_base_container returned r
BaseContainerRead(tree, path, name, nodes, i, entry_list, r) ==
    IF r.status # "Ok" THEN r
    ELSE read_container_children(r.mdb, tree, path, name, nodes, i + 1, entry_list, r.v)

\* the loop of containers.rs add_container over the children of the element, then
\* mdb.add_container
read_container_children(m, tree, path, name, nodes, i, entry_list, base_container) ==
    IF i > Len(nodes)
    THEN ParsedOk(add_container(m, path, Container(name, base_container, entry_list)), 0)
    ELSE IF nodes[i].tag = "EntryList"
    THEN EntryListRead(tree, path, name, nodes, i, base_container,
                       read_entry_list(m, tree, path, nodes[i].entries, 1, entry_list))
    ELSE BaseContainerRead(tree, path, name, nodes, i, entry_list,
                           read_base_container(m, tree, path, nodes[i]))

\* containers.rs add_container
parser_add_container(m, tree, path, name, node) ==
    read_container_children(m, tree, path, name, node.children, 1, <<>>, NoBase)

-----------------------------------------------------------------------------
(* The constructor called on the containers of a ContainerSet, each until it has been
   added, in any order *)

\* the most calls of the constructor
MaxConstructions == 4

NameP == <<"p">>
NameQ == <<"q">>

ComparisonNode(pref) == [parameterRef |-> pref, comparisonOperator |-> "Equality", value |-> 1]
EntryNode(pref, include) == [parameterRef |-> pref, include |-> include]
EntryListNode(entries) == [tag |-> "EntryList", entries |-> entries]
BaseContainerNode(cref, restriction) ==
    [tag |-> "BaseContainer", containerRef |-> cref, restriction |-> restriction]

\* the SequenceContainer elements a container may be declared with, other being the other
\* container of the set
ContainerNodes(self, other) ==
    {[children |-> c] : c \in
        {<<>>,
         <<EntryListNode(<<EntryNode(NameP, None)>>)>>,
         <<EntryListNode(<<EntryNode(NameP, Some(ComparisonNode(NameP)))>>),
           BaseContainerNode(other, None)>>,
         <<BaseContainerNode(other, Some(ComparisonNode(NameP)))>>,
         <<EntryListNode(<<EntryNode(NameP, Some(ComparisonNode(NameP))),
                           EntryNode(NameQ, None)>>)>>,
         <<BaseContainerNode(self, None)>>,
         <<BaseContainerNode(other, None),
           EntryListNode(<<EntryNode(NameP, Some(ComparisonNode(NameQ)))>>)>>}}

\* the name tree of the document: the parameters p and q and the containers a and b
ContainerNameTree ==
    AddNodes(add_sub_system(NewNameTree, <<>>, NameS),
             {[system |-> DocSystem, name |-> n, rtype |-> "Parameter"] : n \in {NameP, NameQ}}
             \cup {[system |-> DocSystem, name |-> n, rtype |-> "SequenceContainer"] :
                      n \in ContainerNames})

\* the MDB when the containers are constructed: p has been added, q has not yet
ContainerMdb == add_parameter(new_space_system(NewMdb, DocSystem), DocSystem, [name |-> NameP])

InitCont ==
    /\ fcall \in {[f |-> "add_container", nodes |-> (NameA :> na @@ NameB :> nb)] :
                     na \in ContainerNodes(NameA, NameB), nb \in ContainerNodes(NameB, NameA)}
    /\ fret = [status |-> "none", name |-> <<>>, before |-> ContainerMdb, added |-> {},
               tries |-> 0]
    /\ name_tree = ContainerNameTree
    /\ mdb = ContainerMdb
    /\ doc = [n \in EntityNames |-> [kind |-> "none", members |-> <<>>]]
    /\ tovisit = {} /\ lpc = "none"
    /\ unresolved = <<>> /\ unresolved1 = <<>> /\ li = 0
    /\ lret = [status |-> "none"] /\ pret = [status |-> "none"] /\ raised = <<>>
    /\ req = NoReq /\ resolved = NoRes
    /\ b = <<>> /\ position = 0 /\ byte_order = BigEndian /\ last = NoCall
    /\ result = NewPvList
    /\ sde = NoSde /\ sres = NoStr
    /\ root = NoIdx /\ pc = "none" /\ stack = <<>> /\ pdata = NoPdata
    /\ ret = NoRet /\ evlog = <<>> /\ hist = <<>> /\ entered = <<>> /\ failed = NoFail
    /\ NoInteger /\ calls = <<>>

\* the constructor of the container returned r
Constructed(name, r) ==
    /\ mdb' = r.mdb
    /\ fret' = [status |-> r.status, name |-> name, before |-> mdb,
                added |-> IF r.status = "Ok" THEN fret.added \cup {name} ELSE fret.added,
                tries |-> fret.tries + 1]

\* one call of the constructor, on a container that has not been added yet
Construct(name) ==
    /\ fcall.f = "add_container"
    /\ name \notin fret.added /\ fret.tries < MaxConstructions
    /\ Constructed(name, parser_add_container(mdb, name_tree, DocSystem, name,
                                              fcall.nodes[name]))
    /\ UNCHANGED fcall

ContUnchanged ==
    UNCHANGED <<bbvars, result, strvars, intvars, mdbvars, treevars, loadvars, root, pc, stack,
                pdata, ret, evlog, hist, entered, failed>>

NextCont == \E n \in ContainerNames : Construct(n) /\ ContUnchanged

SpecCont == InitCont /\ [][NextCont]_vars

-----------------------------------------------------------------------------
(* Claim C29: a constructor that fails leaves the MDB as it was *)

\* how many times the containers of the MDB refer to the criteria k
CriteriaRefs(k) ==
    Cardinality({i \in DOMAIN mdb.containers :
                    mdb.containers[i].base_container.some
                    /\ mdb.containers[i].base_container.mc = k})
    + Cardinality({<<i, j>> \in (DOMAIN mdb.containers) \X (1..2) :
                      /\ j \in DOMAIN mdb.containers[i].entries
                      /\ mdb.containers[i].entries[j].include_condition = k})

\* the load has succeeded: every container of the set has been added
AllConstructed == fcall.f = "add_container" /\ fret.added = ContainerNames

\* C29: when a container constructor signals UnresolvedReference, the MDB is left exactly
\* as it was before the attempt (no MatchCriteria of an earlier include condition or
\* restriction has been added), so after a successful load match_criteria contains
\* exactly one entry per criteria referenced by a stored container and none twice.
C29_FailedConstructorLeavesMdb ==
    /\ (fcall.f = "add_container" /\ fret.status = "UnresolvedReference") => mdb = fret.before
    /\ AllConstructed => \A k \in DOMAIN mdb.match_criteria : CriteriaRefs(k) = 1

\* what holds: a constructor that fails adds no container and takes nothing away, and
\* after a successful load every criteria is referenced at most once
FailedConstructorAddsCriteria ==
    /\ (fcall.f = "add_container" /\ fret.status \notin {"none", "Ok"}) =>
          /\ mdb.containers = fret.before.containers
          /\ mdb.space_systems = fret.before.space_systems
          /\ mdb.child_containers = fret.before.child_containers
          /\ Len(mdb.match_criteria) >= Len(fret.before.match_criteria)
          /\ SubSeq(mdb.match_criteria, 1, Len(fret.before.match_criteria))
                = fret.before.match_criteria
    /\ AllConstructed => \A k \in DOMAIN mdb.match_criteria : CriteriaRefs(k) <= 1

\* what holds of the constructor for C28: the base of a container added has a smaller
\* index, and a container declared with cyclic inheritance is never added
ConstructedBaseBelow ==
    fcall.f = "add_container" =>
        /\ BaseBelow
        /\ \A n \in fret.added :
              \A i \in DOMAIN fcall.nodes[n].children :
                  fcall.nodes[n].children[i].tag = "BaseContainer" =>
                      /\ fcall.nodes[n].children[i].containerRef # n
                      /\ fcall.nodes[n].children[i].containerRef \in fret.added
        /\ fret.added = ContainerNames =>
              \E n \in ContainerNames :
                  \A i \in DOMAIN fcall.nodes[n].children :
                      fcall.nodes[n].children[i].tag # "BaseContainer"

-----------------------------------------------------------------------------
(* Claim C30: the box size is defined when the bytes of the string are read *)

\* read_string_data_encoding can build the encoding: a FixedValue sets the size and the box
\* together, and after it only a DynamicValue changes the box
Producible(s) ==
    s.size.kind = "Fixed" =>
        \/ s.box.kind = "Dynamic"
        \/ s.box.kind = "Fixed" /\ s.box.x = s.size.x

\* the box and the size that the call found, in a build with (chk) or without overflow checks
CalledBox == BoxSize(sde, result, MaxBox(sde, remaining_bytes(b, sres.bit_offset)))

\* extract_string was called at a byte boundary and the box was found
StringCalled == sres.status # "none" /\ sres.bit_offset % 8 = 0 /\ CalledBox.ok

CalledSize(chk) == StringSize(sde, b, sres.bit_offset, byte_order, CalledBox, chk)

\* the call came to assert!(box_size.is_some())
AtAssertion(chk) == StringCalled /\ CalledSize(chk).status = "ok"

\* the bytes get_bytes_ref is asked for lie in the box and in the buffer
ReadInBox(sz) ==
    /\ sres.bit_offset <= sz.pos
    /\ sz.pos + 8 * sz.strsize <= sres.bit_offset + 8 * sz.box.v
    /\ sz.pos + 8 * sz.strsize <= bitsize(b)

\* the call did what extract_string does in one of the builds
ExtractedAsBuilt ==
    \E chk \in BOOLEAN :
        sres = [extract_string(sde, b, sres.bit_offset, byte_order, result, chk)
                   EXCEPT !.bit_offset = sres.bit_offset]

\* C30: in extract_string the assertion that the box size is defined before the string bytes
\* are read never fails for any StringDataEncoding the loader can produce (Fixed,
\* LeadingSize or TerminationChar with box Undefined, Fixed or Dynamic) and any packet; on
\* that path the string bytes read always lie inside the box and inside the buffer.
C30_BoxSizeDefined ==
    (sres.status # "none" /\ Producible(sde)) =>
        /\ ExtractedAsBuilt
        /\ \A chk \in BOOLEAN :
              AtAssertion(chk) => /\ CalledSize(chk).box.some
                                  /\ ReadInBox(CalledSize(chk))

\* what holds: the assertion never fails for an encoding the loader can produce, and the
\* bytes lie in the box and in the buffer unless the u32 sum of the size tag and the size
\* has wrapped; a fixed size with an undefined box always fails the assertion
BoxDefinedUnlessWrapped ==
    sres.status # "none" =>
        /\ ExtractedAsBuilt
        /\ \A chk \in BOOLEAN :
              /\ (AtAssertion(chk) /\ Producible(sde)) =>
                    /\ CalledSize(chk).box.some
                    /\ ReadInBox(CalledSize(chk))
                       \/ /\ ~chk /\ sde.size.kind = "LeadingSize" /\ sde.size.x = 4
                          /\ CalledSize(TRUE).status = "panic"
              /\ (AtAssertion(chk) /\ ~Producible(sde)) =>
                    (sde.box.kind = "Undefined" => /\ ~CalledSize(chk).box.some
                                                   /\ sres.status = "panic")

=============================================================================
